---- MODULE Spec2Model ----
(***************************************************************************)
(* SentinelGov crisis orchestrator (crisisEngine.ts, V4), its negotiation  *)
(* engine, the continuous simulation loop, the event bus / event store and *)
(* the zustand store, with the control signals the React UI permits.       *)
(*                                                                         *)
(* Scheduling: one JavaScript thread.  Every `await delay(ms)` is a timer; *)
(* a process step runs the code between two awaits atomically when its     *)
(* timer is due.  Time advances to the next timer expiry (Advance); UI     *)
(* signals and telemetry deliveries are handled between timer callbacks.   *)
(* Consecutive delays separated only by narration (info log lines, zone    *)
(* colours, agent badges: store fields that are not part of this model)    *)
(* are one program point whose delay is their sum.  The interval callback  *)
(* of the continuous simulation is a timer re-armed after every tick.      *)
(*                                                                         *)
(* useSystemStore.getState() returns the current state object and every    *)
(* set() replaces it, so a `const s = store()` taken at the top of a       *)
(* function is a snapshot: reads of s.humanInLoop / s.liveTelemetry later  *)
(* in that function see the values of the moment the snapshot was taken.   *)
(***************************************************************************)
EXTENDS Integers, Sequences, FiniteSets, TLC

\* ---------------------------------------------------------------- bounds
MaxRuns == 3          \* crisis runs started over one behaviour
MaxFaults == 3        \* exceptions injected into agent procedures
MaxRoundsArg == 5     \* largest maxRounds passed to a direct negotiation call
MaxAppends == 3       \* append calls made on the event store called on its own
MaxListeners == 2     \* listeners subscribed to the event store called on its own
MaxResets == 1        \* reset calls made on a component called on its own
MaxSubs == 3          \* subscriptions made on the event bus called on its own
MaxFloodSteps == 16   \* simulateFloodStep calls made on the graph twin called on its own
MaxLightSteps == 1    \* of these, the calls with the base rainfall instead of saturating rain
GRID_ROWS == 2        \* rows of the flood grid stepped on its own (16 in floodGrid.ts)
GRID_COLS == 2        \* its columns (20 in floodGrid.ts)
MaxGridSteps == 2     \* stepFloodGrid calls made on it
MaxUpdates == 3       \* update calls made on the Bayesian engine called on its own
MaxDraws == 4         \* random() calls made on each of the two generators
MaxRiskValue == 100   \* the largest peak or final risk the resolution figures are computed for
MaxEmits == 2         \* emit calls made on the event bus called on its own
MaxZoneRuns == 3      \* runs started while the zones of the store are followed
MaxInjections == 2    \* crisis:inject messages the server accepts
MaxResolves == 2      \* crisis:resolve messages the server receives

\* ------------------------------------------------------ program constants
FallbackRisk == 65
InitialRisk == 12
RISK_ESCALATION_THRESHOLD == 15
TICK_INTERVAL_MS == 2000
MaxNegotiationRounds == 5
LogKeep == 199

Statuses == {"idle", "detected", "simulating", "negotiating", "mitigating", "mitigated", "resolved"}

VALID_TRANSITIONS ==
    [idle |-> {"detected"}, detected |-> {"simulating"}, simulating |-> {"negotiating"},
     negotiating |-> {"mitigating"}, mitigating |-> {"mitigated"},
     mitigated |-> {"resolved"}, resolved |-> {"idle"}]

ParallelAgents == {"Risk", "Simulation", "Resource"}

\* The all-zero genesis value of the hash chain.  A digest is modelled as the
\* (collision-free) list of everything hashed into it: SHA-256(prev + JSON(d))
\* is Append(prev, d).
GenesisHash == << >>

\* Telemetry packets the feed may deliver (percent units for the three ratios).
TelemetryFeed ==
    { [rainfall |-> 110, drainageCapacity |-> 20, populationDensity |-> 70, socialSpike |-> 85],
      [rainfall |-> 30, drainageCapacity |-> 80, populationDensity |-> 40, socialSpike |-> 10] }

\* liveTelemetry is null (<< >>) or one packet (<<t>>).
NoTelemetry == << >>

Min2(a, b) == IF a < b THEN a ELSE b
Max2(a, b) == IF a > b THEN a ELSE b

\* Math.round(Math.max(0, Math.min(100, risk * 100))) with
\* risk = min(rainfall/150, 1)*0.4 + (1-drainage)*0.2 + population*0.2 + social*0.2
calculateLiveRisk(t) ==
    LET num == Min2(t.rainfall, 150) * 400 + (100 - t.drainageCapacity) * 300
               + t.populationDensity * 300 + t.socialSpike * 300
        r == (2 * num + 1500) \div 3000
    IN Max2(0, Min2(100, r))

\* `telemetry ? calculateLiveRisk(telemetry) : dflt`
RiskOr(tel, dflt) == IF tel = NoTelemetry THEN dflt ELSE calculateLiveRisk(tel[1])

VARIABLES
    \* zustand store
    crisisStatus, humanInLoop, demoMode, awaitingHumanApproval, liveTelemetry, riskLevel,
    logs, auditTrail, stateTransitions,
    \* module state of crisisEngine.ts / eventStore / eventBus
    previousHash, events, subs,
    \* module state of continuousSimulation
    simulationRunning, lastRisk, mitigationInterruptFired,
    \* the interval timer of the loop: time left to the next tick
    tickTimer,
    \* who wrote lastRisk last: the loop's start or a tick (for the properties)
    lastRiskSource,
    \* processes
    runs, nextRun, demo, faults,
    \* the pending setTimeout timers, in the order they were registered
    timerList,
    \* a direct call of runDynamicNegotiation: its arguments, locals and result
    neg,
    \* the event store (part_008) called on its own: its fields, the appends in progress and the payload objects
    es,
    \* the event bus (part_009) called on its own: its subscriptions, the emits in progress and the waitFor promises
    bus,
    \* the graph twin (graphTwin.ts) called on its own: its nodes and edges and the value returned by the last call
    twin,
    \* the flood grid (floodGrid.ts) stepped on its own: the cell objects, the grid passed to the last stepFloodGrid call and the grid it returned
    floodGrid,
    \* the Bayesian risk engine (part_010) called on its own: its state, the state before the last call and what that call returned or threw
    bayes,
    \* two SeededRNG generators (floodGrid.ts) given the same seed, and the values each has returned since
    rng,
    \* the figures of the resolution step (crisisEngine.ts 568-577) computed on their own: the two risks and the metrics set from them
    resolved,
    \* the zones of the store over the runs of the engine
    zoneRun,
    \* the socket server: its crisis flag and the timers of its injections
    server,
    \* the last state-machine request or grant signal, for the properties
    lastOp

storeVars == <<crisisStatus, humanInLoop, demoMode, awaitingHumanApproval, liveTelemetry, riskLevel,
               logs, auditTrail, stateTransitions>>
engineVars == <<previousHash, events, subs>>
simVars == <<simulationRunning, lastRisk, mitigationInterruptFired, tickTimer, lastRiskSource>>
procVars == <<runs, nextRun, demo, faults, timerList>>
harnessVars == <<neg, es, bus, twin, floodGrid, bayes, rng, resolved, zoneRun, server>>
programVars == <<storeVars, engineVars, simVars, procVars, lastOp>>
vars == <<programVars, harnessVars>>

RunIds == 1..MaxRuns
NoTimer == -1

\* ------------------------------------------------------------ the world
\* The shared state an engine step reads and writes, threaded through the
\* effect operators below in program order and committed at the end of the step.
NoOp == [op |-> "none"]

World ==
    [crisisStatus |-> crisisStatus, demoMode |-> demoMode,
     awaitingHumanApproval |-> awaitingHumanApproval, riskLevel |-> riskLevel,
     logs |-> logs, auditTrail |-> auditTrail, stateTransitions |-> stateTransitions,
     previousHash |-> previousHash, events |-> events, subs |-> subs,
     simulationRunning |-> simulationRunning,
     lastRisk |-> lastRisk, mitigationInterruptFired |-> mitigationInterruptFired,
     tickTimer |-> tickTimer, lastRiskSource |-> lastRiskSource,
     lastOp |-> NoOp]

Commit(W) ==
    /\ crisisStatus' = W.crisisStatus
    /\ demoMode' = W.demoMode
    /\ awaitingHumanApproval' = W.awaitingHumanApproval
    /\ riskLevel' = W.riskLevel
    /\ logs' = W.logs
    /\ auditTrail' = W.auditTrail
    /\ stateTransitions' = W.stateTransitions
    /\ previousHash' = W.previousHash
    /\ events' = W.events
    /\ subs' = W.subs
    /\ simulationRunning' = W.simulationRunning
    /\ lastRisk' = W.lastRisk
    /\ mitigationInterruptFired' = W.mitigationInterruptFired
    /\ tickTimer' = W.tickTimer
    /\ lastRiskSource' = W.lastRiskSource
    /\ lastOp' = W.lastOp

LastN(q, n) == IF Len(q) <= n THEN q ELSE SubSeq(q, Len(q) - n + 1, Len(q))

\* store.addLog: logs = [...logs.slice(-199), entry].  Only the warning and
\* critical lines are kept; `what` names the line.
addLog(W, agent, what, severity) ==
    [W EXCEPT !.logs = Append(LastN(W.logs, LogKeep),
                              [agent |-> agent, what |-> what, severity |-> severity])]

\* store.addAudit; `hash` is the chain hash quoted in the detail (GenesisHash when
\* the entry quotes none) and `run` the run that wrote the entry.
addAudit(W, action, agent, hash, run) ==
    [W EXCEPT !.auditTrail = Append(W.auditTrail,
                [action |-> action, agent |-> agent, hash |-> hash, run |-> run])]

\* EventStore.append: sequence = this.sequence++ (equal to the log length here,
\* since reset() clears both and no listener appends re-entrantly in the engine).
append(W, type, source, payload, run) ==
    [W EXCEPT !.events = Append(W.events,
                [type |-> type, source |-> source, payload |-> payload,
                 sequence |-> Len(W.events), run |-> run])]

\* store.setCrisisStatus
setCrisisStatus(W, to) == [W EXCEPT !.crisisStatus = to]

\* store.addStateTransition
addStateTransition(W, from, to, agent) ==
    [W EXCEPT !.stateTransitions = Append(W.stateTransitions,
                                          [from |-> from, to |-> to, agent |-> agent])]

\* What one call of transition() did, observed when it returns.
OpRecord(W0, W1, to, run) ==
    [op |-> "transition", from |-> W0.crisisStatus, to |-> to, run |-> run,
     statusAfter |-> W1.crisisStatus,
     eventAdded |-> W1.events # W0.events,
     historyAdded |-> W1.stateTransitions # W0.stateTransitions,
     warned |-> /\ Len(W1.logs) > 0
                /\ W1.logs # W0.logs
                /\ W1.logs[Len(W1.logs)].what = "invalid_transition"
                /\ W1.logs[Len(W1.logs)].severity = "warning"]

\* The state-machine guard of transition(): valid && !valid.includes(to)
Rejected(from, to) == to \notin VALID_TRANSITIONS[from]

\* A transition() that applies the request whatever the table says.
transitionUnchecked(W, to, agent, run) ==
    LET from == W.crisisStatus
        W1 == addStateTransition(W, from, to, agent)
        W2 == setCrisisStatus(W1, to)
        W3 == append(W2, "STATE_TRANSITION", agent, <<from, to>>, run)
    IN [W3 EXCEPT !.lastOp = OpRecord(W, W3, to, run)]

\* transition(to, agent)
transition(W, to, agent, run) ==
    LET from == W.crisisStatus IN
    IF Rejected(from, to)
    THEN LET W1 == addLog(W, agent, "invalid_transition", "warning")
         IN [W1 EXCEPT !.lastOp = OpRecord(W, W1, to, run)]
    ELSE LET W1 == addStateTransition(W, from, to, agent)
             W2 == setCrisisStatus(W1, to)
             W3 == append(W2, "STATE_TRANSITION", agent, <<from, to>>, run)
         IN [W3 EXCEPT !.lastOp = OpRecord(W, W3, to, run)]

\* chainHashDecision, after the digest: hash = SHA-256(data); previousHash = hash
HashOf(data, decision) == Append(data, decision)

\* AgentEventBus.reset: subscriptions.clear()
busReset(W) == [W EXCEPT !.subs = << >>]

\* EventStore.reset
storeReset(W) == [W EXCEPT !.events = << >>]

\* store.resetSystem: status idle, gauge at its initial value, every list of
\* the store emptied.  humanInLoop and demoMode are not touched.
resetSystem(W) ==
    [W EXCEPT !.crisisStatus = "idle", !.riskLevel = InitialRisk,
              !.logs = << >>, !.auditTrail = << >>, !.stateTransitions = << >>]

\* startContinuousSimulation
startContinuousSimulation(W) ==
    IF W.simulationRunning THEN W
    ELSE LET W1 == [W EXCEPT !.simulationRunning = TRUE,
                             !.mitigationInterruptFired = FALSE,
                             !.lastRisk = W.riskLevel,
                             !.tickTimer = TICK_INTERVAL_MS,
                             !.lastRiskSource = "start"]
         IN addAudit(W1, "SIM_CONTINUOUS_START", "Simulation", GenesisHash, 0)

\* stopContinuousSimulation
stopContinuousSimulation(W) ==
    LET W1 == [W EXCEPT !.simulationRunning = FALSE, !.tickTimer = NoTimer]
    IN addAudit(W1, "SIM_CONTINUOUS_STOP", "Simulation", GenesisHash, 0)

\* animateRisk(from, to, durationMs): thirty timed setRiskLevel calls ending at
\* `to`; the gauge is modelled at its end value.
animateRisk(W, to) == [W EXCEPT !.riskLevel = to]

\* ------------------------------------------------------------- processes
AuditedInventory ==
    [pumpUnits |-> 3, evacuationVehicles |-> 42, maxSimultaneousZones |-> 1,
     shelterCapacity |-> 18000, medicalTeams |-> 6]
FallbackInventory ==
    [pumpUnits |-> 2, evacuationVehicles |-> 30, maxSimultaneousZones |-> 1,
     shelterCapacity |-> 15000, medicalTeams |-> 4]
InitialDemand ==
    [zones |-> 2, totalPopulation |-> 67000, priority |-> "immediate", pumpsRequested |-> 5]

NoNegotiation == [finalDemand |-> InitialDemand, rounds |-> 0, consensus |-> FALSE, ms |-> 0]

AgentOff == [pc |-> "off", timer |-> NoTimer, outcome |-> "none"]

\* One call of runCrisisSequence: its program point, its pending delay, the
\* snapshot `s` it took on entry and its locals.  startStatus, path, joined,
\* failed, hitlAtApproval and granted record what the run met, for the properties.
NoRun ==
    [pc |-> "unborn", timer |-> NoTimer, isDemo |-> FALSE,
     sHumanInLoop |-> FALSE, sTelemetry |-> NoTelemetry, aTelemetry |-> NoTelemetry,
     agent |-> [a \in ParallelAgents |-> AgentOff],
     liveRisk |-> 0, hasMc |-> FALSE, inventory |-> FallbackInventory, peakRisk |-> 0,
     data |-> GenesisHash, negotiation |-> NoNegotiation,
     startStatus |-> "idle", path |-> << >>,
     joined |-> {}, failed |-> {},
     hitlAtApproval |-> FALSE, granted |-> FALSE]

\* A run whose runCrisisSequence call has returned, or was rejected.
Finished(pc) == [NoRun EXCEPT !.pc = pc]

NoDemo == [pc |-> "off", timer |-> NoTimer, run |-> 0]

\* ------------------------------------------------- event store (part_008)
\* The EventStore object with the calls in progress on it.  `events`,
\* `sequence` and `listeners` are its fields; `stack` holds one frame per
\* append that is still notifying (the array it iterates, whether that array
\* is still this.listeners, and the position of the loop); `heap` holds the
\* contents of the payload objects, which the events refer to by index.
NewEventStore ==
    [events |-> << >>, sequence |-> 0, listeners |-> << >>, stack |-> << >>,
     heap |-> << >>, nextListener |-> 1, appends |-> 0, resets |-> 0,
     lastCall |-> "none"]

\* The contents a payload object can have.
PayloadContents == {"as_appended", "rewritten"}

\* An array x.filter(...) or [] replaces this.listeners: the loops in progress
\* keep iterating the array they started on.
Detached(stack) == [i \in 1..Len(stack) |-> [stack[i] EXCEPT !.live = FALSE]]

\* this.listeners.push(listener) grows the array in place: a loop in progress
\* on that array sees the new element.
Pushed(stack, listener) ==
    [i \in 1..Len(stack) |->
        IF stack[i].live THEN [stack[i] EXCEPT !.listeners = Append(@, listener)]
        ELSE stack[i]]

\* An append whose sequence counter is read but not advanced.
EventStoreAppendNoCount(E, contents) ==
    LET event == [sequence |-> E.sequence, payload |-> Len(E.heap) + 1,
                  appended |-> contents]
    IN [E EXCEPT !.heap = Append(@, contents),
                 !.events = Append(@, event),
                 !.stack = Append(@, [listeners |-> E.listeners, live |-> TRUE, idx |-> 0]),
                 !.appends = @ + 1,
                 !.lastCall = "append"]

\* EventStore.append up to its first listener call: the event takes
\* this.sequence++, is frozen and pushed; `appended` remembers the payload's
\* contents at this moment (for the properties).
EventStoreAppend(E, contents) ==
    LET event == [sequence |-> E.sequence, payload |-> Len(E.heap) + 1,
                  appended |-> contents]
    IN [E EXCEPT !.heap = Append(@, contents),
                 !.sequence = @ + 1,
                 !.events = Append(@, event),
                 !.stack = Append(@, [listeners |-> E.listeners, live |-> TRUE, idx |-> 0]),
                 !.appends = @ + 1,
                 !.lastCall = "append"]

\* EventStore.subscribe
EventStoreSubscribe(E) ==
    [E EXCEPT !.listeners = Append(@, E.nextListener),
              !.stack = Pushed(@, E.nextListener),
              !.nextListener = @ + 1,
              !.lastCall = "subscribe"]

\* the function returned by subscribe: this.listeners = this.listeners.filter(...)
EventStoreUnsubscribe(E, listener) ==
    [E EXCEPT !.listeners = SelectSeq(@, LAMBDA l : l # listener),
              !.stack = Detached(@),
              !.lastCall = "unsubscribe"]

\* EventStore.reset
EventStoreReset(E) ==
    [E EXCEPT !.events = << >>, !.sequence = 0, !.listeners = << >>,
              !.stack = Detached(@), !.resets = @ + 1, !.lastCall = "reset"]

\* What a listener may do with the store while it is being notified.
ListenerCall(E, what) ==
    CASE what = "append" -> EventStoreAppend(E, "as_appended")
      [] what = "reset" -> EventStoreReset(E)
      [] what = "subscribe" -> EventStoreSubscribe(E)
      [] what = "unsubscribe" -> EventStoreUnsubscribe(E, E.listeners[1])
      [] OTHER -> E    \* returns, or throws into the catch of line 44

ListenerCallAllowed(E, what) ==
    CASE what = "append" -> E.appends < MaxAppends
      [] what = "reset" -> E.resets < MaxResets
      [] what = "subscribe" -> E.nextListener <= MaxListeners
      [] what = "unsubscribe" -> E.listeners # << >>
      [] OTHER -> TRUE

\* --------------------------------------------------- event bus (part_009)
\* The AgentEventBus object, for one event type, with the calls in progress on
\* it.  `subs` is the array this.subscriptions holds for the type (empty when
\* the map has no entry); a subscription is named by the number of its id
\* `sub-N` and described by info[N]; `stack` holds one frame per emit that is
\* still delivering.  The fields `calls`, `unsubscribed`, `unsubAt`,
\* `firstEmit`, `lateCalls`, `escaped` and `done` only record what happened.
NoEmit == [event |-> 0, subscribed |-> << >>, delivered |-> << >>, threw |-> {}]

NewBus ==
    [subs |-> << >>, info |-> << >>, stack |-> << >>, emits |-> 0, resets |-> 0,
     lateCalls |-> {}, escaped |-> FALSE, done |-> NoEmit]

\* The Subscription object of on ("on"), once ("once") or of the once inside
\* waitFor ("wait"), with the promise and the timer of a waitFor.
SubInfo(kind) ==
    [kind |-> kind, calls |-> 0, unsubscribed |-> FALSE, unsubAt |-> 0,
     state |-> IF kind = "wait" THEN "pending" ELSE "none",
     timer |-> kind = "wait", value |-> 0, firstEmit |-> 0]

\* subs.push(sub) grows the array in place: an emit delivering from that array
\* sees the new subscription.
PushedSub(stack, id) ==
    [i \in 1..Len(stack) |->
        IF stack[i].live THEN [stack[i] EXCEPT !.subs = Append(@, id)]
        ELSE stack[i]]

\* addSub, called by on and once
addSub(B, kind) ==
    LET id == Len(B.info) + 1
    IN [B EXCEPT !.subs = Append(@, id),
                 !.stack = PushedSub(@, id),
                 !.info = Append(@, SubInfo(kind))]

\* removeSub: the map takes a new, filtered array
removeSub(B, id) ==
    [B EXCEPT !.subs = SelectSeq(@, LAMBDA x : x # id),
              !.stack = Detached(@)]

\* the function returned by on or once
unsubscribe(B, id) ==
    [removeSub(B, id) EXCEPT !.info[id].unsubscribed = TRUE,
                             !.info[id].unsubAt = B.emits]

\* AgentEventBus.reset
subscriptionsClear(B) ==
    [B EXCEPT !.subs = << >>, !.stack = Detached(@), !.resets = @ + 1]

\* emit up to its first handler call (lines 87-102)
emit(B) ==
    LET n == B.emits + 1
        noted == [i \in 1..Len(B.info) |->
                    IF B.info[i].state = "pending" /\ B.info[i].firstEmit = 0
                    THEN [B.info[i] EXCEPT !.firstEmit = n]
                    ELSE B.info[i]]
        B1 == [B EXCEPT !.emits = n, !.info = noted]
    IN IF B.subs = << >>
       THEN [B1 EXCEPT !.done = [NoEmit EXCEPT !.event = n]]
       ELSE [B1 EXCEPT !.stack = Append(@,
                [event |-> n, subs |-> B.subs, live |-> TRUE, idx |-> 0,
                 toRemove |-> {}, subscribed |-> B.subs, delivered |-> << >>,
                 threw |-> {}])]

\* A handler exception that is not caught: the loop is abandoned and the
\* exception reaches the caller of emit.
HandlerThrowsUncaught(B, id) ==
    [B EXCEPT !.escaped = TRUE, !.stack = SubSeq(@, 1, Len(@) - 1)]

\* lines 104-108: the handler throws inside the try; the catch logs the error
HandlerThrows(B, id) ==
    [B EXCEPT !.stack[Len(B.stack)].threw = @ \cup {id}]

\* waitFor's handler (lines 132-135): clearTimeout(timer); resolve(event).  A
\* promise that is already settled ignores the call.
Resolver(B, id, event) ==
    [B EXCEPT !.info[id].timer = FALSE,
              !.info[id].state = IF @ = "pending" THEN "resolved" ELSE @,
              !.info[id].value = IF B.info[id].state = "pending" THEN event ELSE @]

\* What the handler of subscription id does with the bus when it is invoked;
\* `target` is the subscription whose unsubscribe function it calls.
HandlerCall(B, id, what, target) ==
    CASE what = "throw" -> HandlerThrows(B, id)
      [] what = "emit" -> emit(B)
      [] what = "on" -> addSub(B, "on")
      [] what = "once" -> addSub(B, "once")
      [] what = "unsubscribe" -> unsubscribe(B, target)
      [] what = "reset" -> subscriptionsClear(B)
      [] OTHER -> B

HandlerCallAllowed(B, what, target) ==
    CASE what = "emit" -> B.emits < MaxEmits
      [] what \in {"on", "once"} -> Len(B.info) < MaxSubs
      [] what = "unsubscribe" -> /\ B.info[target].kind \in {"on", "once"}
                                 /\ ~B.info[target].unsubscribed
      [] what = "reset" -> B.resets < MaxResets
      [] OTHER -> TRUE

\* lines 103-110 for one subscription of the array the innermost emit iterates
Deliver(B, what, target) ==
    LET top == Len(B.stack)
        frame == B.stack[top]
        id == frame.subs[frame.idx + 1]
        late == B.info[id].unsubscribed /\ frame.event > B.info[id].unsubAt
        B1 == [B EXCEPT !.stack[top].idx = @ + 1,
                        !.stack[top].delivered = Append(@, id),
                        !.stack[top].toRemove =
                            IF B.info[id].kind = "on" THEN @ ELSE @ \cup {id},
                        !.info[id].calls = @ + 1,
                        !.lateCalls = IF late THEN @ \cup {id} ELSE @]
    IN IF B.info[id].kind = "wait"
       THEN Resolver(B1, id, frame.event)
       ELSE HandlerCall(B1, id, what, target)

\* lines 112-119: the one-shot clean-up of the innermost emit, and its return
Finish(B) ==
    LET top == Len(B.stack)
        frame == B.stack[top]
        B1 == IF frame.toRemove # {}
              THEN [B EXCEPT !.subs = SelectSeq(frame.subs, LAMBDA x : x \notin frame.toRemove),
                             !.stack = Detached(@)]
              ELSE B
    IN [B1 EXCEPT !.stack = SubSeq(@, 1, top - 1),
                  !.done = [event |-> frame.event, subscribed |-> frame.subscribed,
                            delivered |-> frame.delivered, threw |-> frame.threw]]

\* waitFor's timer callback (lines 127-130): unsub(); reject(...)
Timeout(B, id) ==
    [unsubscribe(B, id) EXCEPT !.info[id].timer = FALSE,
                               !.info[id].state = IF @ = "pending" THEN "rejected" ELSE @]

\* ------------------------------------------------ graph twin (graphTwin.ts)
\* Water levels, flows and route costs are numbers with six decimals, held as
\* integers: Unit stands for 1.0.  Nodes and edges are named by their position
\* in defaultNodes and defaultEdges.
Unit == 1000000

defaultNodes ==
    << [id |-> "zone-1", elevation |-> 12], [id |-> "zone-2", elevation |-> 28],
       [id |-> "zone-3", elevation |-> 35], [id |-> "zone-4", elevation |-> 18],
       [id |-> "zone-5", elevation |-> 42], [id |-> "zone-6", elevation |-> 30],
       [id |-> "zone-7", elevation |-> 15], [id |-> "zone-8", elevation |-> 8],
       [id |-> "shelter-A", elevation |-> 50], [id |-> "shelter-B", elevation |-> 55] >>

NodeIds == 1..Len(defaultNodes)

\* permeability in tenths
Edge(from, to, weight, capacity, type, permeability) ==
    [from |-> from, to |-> to, weight |-> weight, capacity |-> capacity,
     type |-> type, permeability |-> permeability]

defaultEdges ==
    << Edge(1, 4, 8, 2000, "road", 7), Edge(4, 3, 5, 3000, "bridge", 3),
       Edge(1, 7, 12, 1500, "road", 8), Edge(3, 6, 6, 2500, "road", 5),
       Edge(3, 5, 7, 3000, "highway", 4), Edge(2, 3, 4, 2000, "road", 5),
       Edge(6, 8, 9, 1800, "road", 6), Edge(7, 8, 15, 1000, "road", 9),
       Edge(5, 8, 10, 2200, "road", 5), Edge(3, 9, 3, 4000, "highway", 2),
       Edge(5, 10, 4, 3500, "highway", 2), Edge(6, 9, 7, 2000, "road", 3),
       Edge(1, 3, 10, 1800, "road", 6), Edge(4, 9, 12, 1500, "road", 4),
       Edge(4, 1, 8, 2000, "road", 7), Edge(3, 4, 5, 3000, "bridge", 3),
       Edge(3, 2, 4, 2000, "road", 5), Edge(3, 1, 10, 1800, "road", 6) >>

EdgeIds == 1..Len(defaultEdges)

Min(a, b) == IF a < b THEN a ELSE b
Max(a, b) == IF a > b THEN a ELSE b

NoOutput == [call |-> "none"]

\* new InfrastructureGraph(), and the graph after reset(); `out` is the value
\* the last call returned, `steps` and `light` count the simulateFloodStep
\* calls made on the graph since it was new, `resets` the reset calls.
NewTwin ==
    [nodes |-> [n \in NodeIds |-> [waterLevel |-> 0, isFlooded |-> FALSE]],
     blocked |-> [e \in EdgeIds |-> FALSE],
     steps |-> 0, light |-> 0, resets |-> 0, out |-> NoOutput]

\* lines 94-99: node n sends water along its unblocked out-edges, edge j onwards
RECURSIVE Propagate(_, _, _, _)
Propagate(nodes, blocked, n, j) ==
    IF j > Len(defaultEdges) THEN nodes
    ELSE LET edge == defaultEdges[j]
             flow == (nodes[n].waterLevel * edge.permeability) \div 500
         IN IF edge.from = n /\ ~blocked[j]
            THEN Propagate([nodes EXCEPT ![edge.to].waterLevel = Min(Unit, @ + flow)],
                           blocked, n, j + 1)
            ELSE Propagate(nodes, blocked, n, j + 1)

\* lines 83-89: rainfallFactor * elevationFactor * 0.05
waterIncrease(rainfall, elevation) ==
    (Min(rainfall, 150) * (60 - elevation) * 50) \div 9

\* lines 87-90: node n takes its rainfall and its flooded flag is set from the
\* level it has at that moment
RainOn(nodes, rainfall, n) ==
    LET level == Min(Unit, Max(0, nodes[n].waterLevel
                                   + waterIncrease(rainfall, defaultNodes[n].elevation)))
    IN [nodes EXCEPT ![n] = [waterLevel |-> level,
                             isFlooded |-> level > (4 * Unit) \div 10]]

\* lines 85-101: the loop over the nodes, node n onwards
RECURSIVE NodeLoop(_, _, _, _)
NodeLoop(nodes, blocked, rainfall, n) ==
    IF n > Len(nodes) THEN nodes
    ELSE NodeLoop(Propagate(RainOn(nodes, rainfall, n), blocked, n, 1),
                  blocked, rainfall, n + 1)

\* An edge flag recomputed from the water levels instead of only being set.
BlockedAfterRecomputed(nodes, j, was) ==
    LET edge == defaultEdges[j]
        from == nodes[edge.from].waterLevel
        to == nodes[edge.to].waterLevel
    IN \/ edge.type = "bridge" /\ (from > Unit \div 2 \/ to > Unit \div 2)
       \/ from > (7 * Unit) \div 10 \/ to > (7 * Unit) \div 10

\* lines 104-114: edge j after the blocking loop; `was` is its flag before
BlockedAfter(nodes, j, was) ==
    LET edge == defaultEdges[j]
        from == nodes[edge.from].waterLevel
        to == nodes[edge.to].waterLevel
    IN \/ was
       \/ edge.type = "bridge" /\ (from > Unit \div 2 \/ to > Unit \div 2)
       \/ from > (7 * Unit) \div 10 \/ to > (7 * Unit) \div 10

\* InfrastructureGraph.simulateFloodStep
simulateFloodStep(T, rainfall) ==
    LET after == NodeLoop(T.nodes, T.blocked, rainfall, 1)
        flags == [j \in EdgeIds |-> BlockedAfter(after, j, T.blocked[j])]
    IN [T EXCEPT !.nodes = after, !.blocked = flags,
                 !.out = [call |-> "simulateFloodStep"]]

\* InfrastructureGraph.reset
twinReset(T) ==
    [T EXCEPT !.nodes = NewTwin.nodes, !.blocked = NewTwin.blocked,
              !.out = [call |-> "reset"]]

\* distances[...] = Infinity
Infinity == 2000000000

\* queue.sort((a, b) => a.dist - b.dist); queue.shift(): the sort is stable, so
\* the element taken is the first of those with the least dist.
FirstLeast(queue) ==
    CHOOSE i \in 1..Len(queue) :
        /\ \A k \in 1..Len(queue) : queue[i].dist <= queue[k].dist
        /\ \A k \in 1..(i - 1) : queue[k].dist > queue[i].dist

Without(queue, i) == SubSeq(queue, 1, i - 1) \o SubSeq(queue, i + 1, Len(queue))

\* An edge test that does not look at the target's flooded flag.
RelaxableIgnoringFlood(T, j, current) ==
    /\ defaultEdges[j].from = current
    /\ ~T.blocked[j]

\* lines 140-143: edge j leaves the current node, is not blocked and its target
\* is not flooded
Relaxable(T, j, current) ==
    /\ defaultEdges[j].from = current
    /\ ~T.blocked[j]
    /\ ~T.nodes[defaultEdges[j].to].isFlooded

\* lines 141-154: the out-edges of the current node, edge j onwards; D holds
\* distances, previous and queue
RECURSIVE Relax(_, _, _, _)
Relax(T, D, current, j) ==
    IF j > Len(defaultEdges) THEN D
    ELSE LET edge == defaultEdges[j]
             floodPenalty == T.nodes[edge.to].waterLevel * 20
             newDist == D.distances[current] + edge.weight * Unit + floodPenalty
         IN IF Relaxable(T, j, current) /\ newDist < D.distances[edge.to]
            THEN Relax(T, [distances |-> [D.distances EXCEPT ![edge.to] = newDist],
                           previous |-> [D.previous EXCEPT ![edge.to] = current],
                           queue |-> Append(D.queue, [id |-> edge.to, dist |-> newDist])],
                       current, j + 1)
            ELSE Relax(T, D, current, j + 1)

\* lines 131-155: while (queue.length > 0)
RECURSIVE QueueLoop(_, _, _, _)
QueueLoop(T, D, visited, endId) ==
    IF D.queue = << >> THEN D
    ELSE LET i == FirstLeast(D.queue)
             current == D.queue[i].id
             D1 == [D EXCEPT !.queue = Without(@, i)]
         IN IF current \in visited THEN QueueLoop(T, D1, visited, endId)
            ELSE IF current = endId THEN D1
            ELSE QueueLoop(T, Relax(T, D1, current, 1), visited \cup {current}, endId)

\* lines 160-165: the path rebuilt from previous; 0 stands for null, and for
\* the undefined that previous gives for a key it does not hold
RECURSIVE PathTo(_, _, _)
PathTo(previous, current, path) ==
    IF current = 0 THEN path
    ELSE PathTo(previous,
                IF current \in DOMAIN previous THEN previous[current] ELSE 0,
                <<current>> \o path)

\* lines 167-176: the first edge of least capacity along the path, from step i
\* on; best is the least capacity so far (Infinity when none)
RECURSIVE Bottleneck(_, _, _)
Bottleneck(path, i, best) ==
    IF i >= Len(path) THEN best
    ELSE LET found == {j \in EdgeIds : /\ defaultEdges[j].from = path[i]
                                       /\ defaultEdges[j].to = path[i + 1]}
             edge == defaultEdges[CHOOSE j \in found : \A k \in found : j <= k]
         IN IF found # {} /\ edge.capacity < best.capacity
            THEN Bottleneck(path, i + 1, [capacity |-> edge.capacity,
                                          bottleneck |-> <<path[i], path[i + 1]>>])
            ELSE Bottleneck(path, i + 1, best)

NoRoute == [path |-> << >>]

\* Math.round(undefined * 10) / 10
NaN == "NaN"

\* InfrastructureGraph.dijkstra; NoRoute stands for null, and totalCost is
\* Math.round(distance * 10) / 10. distances holds a key for every node and for
\* startId (lines 124-128); for any other key distances[endId] is undefined,
\* which is not === Infinity.
dijkstra(T, startId, endId) ==
    LET D0 == [distances |-> [n \in NodeIds \cup {startId} |->
                                    IF n = startId THEN 0 ELSE Infinity],
               previous |-> [n \in NodeIds |-> 0],
               queue |-> << [id |-> startId, dist |-> 0] >>]
        D == QueueLoop(T, D0, {}, endId)
        held == endId \in DOMAIN D.distances
        path == PathTo(D.previous, endId, << >>)
        least == Bottleneck(path, 1, [capacity |-> Infinity, bottleneck |-> << >>])
    IN IF held /\ D.distances[endId] = Infinity THEN NoRoute
       ELSE [path |-> path,
             totalCost |-> IF held
                           THEN ((D.distances[endId] + Unit \div 20) \div (Unit \div 10))
                                    * (Unit \div 10)
                           ELSE NaN,
             bottleneck |-> least.bottleneck,
             capacity |-> least.capacity]

\* nodes.filter(n => n.id.startsWith('shelter')), in array order
Shelters == <<9, 10>>

\* The best-route loop keeping the last route found instead of the cheapest.
RECURSIVE BestRouteLastFound(_, _, _, _)
BestRouteLastFound(T, zoneId, i, best) ==
    IF i > Len(Shelters) THEN best
    ELSE LET route == dijkstra(T, zoneId, Shelters[i])
         IN IF route # NoRoute
            THEN BestRouteLastFound(T, zoneId, i + 1, route)
            ELSE BestRouteLastFound(T, zoneId, i + 1, best)

\* lines 192-199: the best route of one zone over the shelters, shelter i onwards
RECURSIVE BestRoute(_, _, _, _)
BestRoute(T, zoneId, i, best) ==
    IF i > Len(Shelters) THEN best
    ELSE LET route == dijkstra(T, zoneId, Shelters[i])
         IN IF route # NoRoute /\ (best = NoRoute \/ route.totalCost < best.totalCost)
            THEN BestRoute(T, zoneId, i + 1, route)
            ELSE BestRoute(T, zoneId, i + 1, best)

\* InfrastructureGraph.findEvacuationRoutes
findEvacuationRoutes(T, zoneIds) ==
    [z \in {zoneIds[i] : i \in 1..Len(zoneIds)} |-> BestRoute(T, z, 1, NoRoute)]

\* InfrastructureGraph.getFloodedZones
getFloodedZones(T) == {n \in NodeIds : T.nodes[n].isFlooded}

\* InfrastructureGraph.snapshot
snapshot(T) ==
    [nodes |-> T.nodes,
     edges |-> {j \in EdgeIds : T.blocked[j]},
     floodedZones |-> getFloodedZones(T)]

\* ---------------------------------------------------------------------------
\* floodGrid.ts: the cellular flood grid. Cells are objects on a heap (a
\* function from object ids to fields); a grid is an array object `ref` holding
\* the id of the cell at each position. Water levels and rates are in
\* millionths (Unit), params.drainageCapacity in tenths.

Positions == (1..GRID_ROWS) \X (1..GRID_COLS)
CellCount == GRID_ROWS * GRID_COLS

\* row-major index of a position
CellAt(pos) == (pos[1] - 1) * GRID_COLS + pos[2]

\* GridCell; zoneId plays no part in the step
GridCell(row, col, altitude, drainageRate, waterLevel, isRiver) ==
    [row |-> row, col |-> col, altitude |-> altitude, drainageRate |-> drainageRate,
     waterLevel |-> waterLevel, isRiver |-> isRiver]

NoGrid == [ref |-> 0]

\* getNeighbors: the positions of the neighbours, in the order up, down,
\* left, right
getNeighbors(row, col) ==
    (IF row > 1 THEN << <<row - 1, col>> >> ELSE << >>)
        \o (IF row < GRID_ROWS THEN << <<row + 1, col>> >> ELSE << >>)
        \o (IF col > 1 THEN << <<row, col - 1>> >> ELSE << >>)
        \o (IF col < GRID_COLS THEN << <<row, col + 1>> >> ELSE << >>)

\* A copy that hands back the cell object itself.
CopyCellByReference(id, fresh) == id

\* line 108: ({ ...cell }) is a new object, `fresh`, with the fields of `id`
CopyCell(id, fresh) == fresh

\* lines 131-149: the neighbours of the cell, neighbour i onwards; `water` is
\* the local of the cell being processed
RECURSIVE NeighborLoop(_, _, _, _, _, _, _)
NeighborLoop(heap, grid, next, cellId, water, neighbors, i) ==
    IF i > Len(neighbors) THEN [heap |-> heap, water |-> water]
    ELSE LET cell == heap[cellId]
             n == heap[grid.cells[neighbors[i]]]
             altDiff == cell.altitude - n.altitude
         IN IF altDiff > 0 /\ cell.waterLevel > Unit \div 20
            THEN LET flowRate == Min(altDiff * 200, water \div 4)
                     target == next.cells[<<n.row, n.col>>]
                 IN NeighborLoop([heap EXCEPT ![target].waterLevel = @ + flowRate],
                                 grid, next, cellId, water - flowRate, neighbors, i + 1)
            ELSE IF altDiff < 0 /\ n.waterLevel > Unit \div 20
            THEN NeighborLoop(heap, grid, next, cellId,
                              water + Min((0 - altDiff) * 200, n.waterLevel \div 4),
                              neighbors, i + 1)
            ELSE NeighborLoop(heap, grid, next, cellId, water, neighbors, i + 1)

\* line 113: Math.min(params.rainfall / 150, 1) * 0.08 * deltaTime, deltaTime 1
rainfallInput(params) == (Min(params.rainfall, 150) * 8 * Unit) \div 15000

\* lines 118-157: the loop over the cells in row-major order, cell k onwards
RECURSIVE CellLoop(_, _, _, _, _)
CellLoop(heap, grid, next, params, k) ==
    IF k > CellCount THEN heap
    ELSE LET pos == <<(k - 1) \div GRID_COLS + 1, ((k - 1) % GRID_COLS) + 1>>
             cellId == grid.cells[pos]
             cell == heap[cellId]
             rained == cell.waterLevel
                         + (IF cell.isRiver THEN (rainfallInput(params) * 3) \div 2
                                            ELSE (rainfallInput(params) * 3) \div 10)
             after == NeighborLoop(heap, grid, next, cellId, rained,
                                   getNeighbors(pos[1], pos[2]), 1)
             drained == after.water
                          - (after.heap[cellId].drainageRate * params.drainageCapacity)
                                \div 10
         IN CellLoop([after.heap EXCEPT ![next.cells[pos]].waterLevel =
                                            Max(0, Min(Unit, drained))],
                     grid, next, params, k + 1)

\* stepFloodGrid(grid, params): G holds the heap and the grid passed; the
\* result holds the heap after the call and the grid returned. New objects
\* take ids that are not in use.
stepFloodGrid(G, params) ==
    LET base == IF \E pos \in Positions : G.grid.cells[pos] > CellCount
                THEN 0 ELSE CellCount
        next == [ref |-> IF G.grid.ref = 1 THEN 2 ELSE 1,
                 cells |-> [pos \in Positions |->
                               CopyCell(G.grid.cells[pos], base + CellAt(pos))]]
        copied == [id \in DOMAIN G.heap \cup {next.cells[pos] : pos \in Positions} |->
                      IF id \in DOMAIN G.heap THEN G.heap[id]
                      ELSE G.heap[G.grid.cells[CHOOSE pos \in Positions :
                                                  next.cells[pos] = id]]]
    IN [heap |-> CellLoop(copied, G.grid, next, params, 1), grid |-> next]

\* The cells a grid is built from: a low river cell and a higher bank cell
\* with the rates createFloodGrid gives them, dry, at the river's initial
\* level, or full.
CellKinds ==
    {[altitude |-> 20, drainageRate |-> Unit \div 100, isRiver |-> TRUE],
     [altitude |-> 50, drainageRate |-> Unit \div 8, isRiver |-> FALSE]}
CellLevels == {0, (3 * Unit) \div 10, Unit}

\* A grid as the caller holds it before any step: cell objects 1..CellCount
GridOf(kind, level) ==
    [heap |-> [id \in 1..CellCount |->
                  LET pos == CHOOSE p \in Positions : CellAt(p) = id
                  IN GridCell(pos[1], pos[2], kind[pos].altitude, kind[pos].drainageRate,
                              level[pos], kind[pos].isRiver)],
     current |-> [ref |-> 1, cells |-> [pos \in Positions |-> CellAt(pos)]],
     given |-> NoGrid,
     before |-> << >>,
     steps |-> 0]

InputGrids ==
    {GridOf(kind, level) : kind \in [Positions -> CellKinds],
                           level \in [Positions -> CellLevels]}

\* createFloodGrid() in small: the river along the first row at level 0.3,
\* dry banks elsewhere
NewFloodGrid ==
    GridOf([pos \in Positions |->
               CHOOSE kind \in CellKinds : kind.isRiver <=> pos[1] = 1],
           [pos \in Positions |-> IF pos[1] = 1 THEN (3 * Unit) \div 10 ELSE 0])

\* ---------------------------------------------------------------------------
\* part_010: the Bayesian risk engine. Probabilities are in thousandths
\* (Milli); NotANumber stands for NaN.

Milli == 1000
NotANumber == 0 - 1

\* The keys LIKELIHOOD_TABLE holds itself
OwnEvidenceTypes ==
    {"rainfall", "drainage_failure", "social_spike", "sensor_alert", "river_level",
     "historical_frequency"}

\* LIKELIHOOD_TABLE is an object literal: a lookup by key also finds what it
\* inherits from Object.prototype. Of those, constructor and toString are
\* functions and __proto__ is an object.
InheritedFunctions == {"constructor", "toString"}
InheritedObjects == {"__proto__"}

\* lines 29-54: the likelihood functions. The two logistic ones are taken at
\* their centre only, where Math.exp(0) = 1 makes them 1 / 2.
LIKELIHOOD_TABLE(evidenceType, value) ==
    CASE evidenceType = "rainfall" -> Milli \div 2
      [] evidenceType = "river_level" -> Milli \div 2
      [] evidenceType = "drainage_failure" -> Milli - value
      [] evidenceType = "social_spike" -> (value * 85) \div 100
      [] evidenceType = "sensor_alert" -> Min(Milli, (value * 9) \div 10)
      [] evidenceType = "historical_frequency" -> Min(Milli, value)

\* What likelihoodFn(observedValue) gives for a "function" found on
\* Object.prototype: Object(value) is a Number object that counts as the value
\* in arithmetic; toString called without a receiver gives a string, which is
\* NaN in arithmetic.
InheritedCall(evidenceType, value) ==
    IF evidenceType = "constructor" THEN value ELSE NotANumber

\* Math.sqrt(n), in thousandths and rounded down
SqrtMilli(n) ==
    CHOOSE r \in 0..(4 * Milli) : r * r <= n * Milli * Milli
                                   /\ (r + 1) * (r + 1) > n * Milli * Milli

\* constructor(prior = 0.15), and reset(prior = 0.15)
BayesianState(prior) ==
    [prior |-> prior, posterior |-> prior, likelihood |-> Milli \div 2,
     evidenceStrength |-> Milli \div 2,
     confidenceInterval |-> <<(prior * 7) \div 10, Min(Milli, (prior * 13) \div 10)>>,
     updateCount |-> 0, history |-> << >>]

\* lines 80-117: the update once a likelihood has been computed
Posterior(state, evidenceType, likelihood) ==
    LET priorBefore == state.posterior
        nan == likelihood = NotANumber
        likelihoodNoFlood == Max(Milli \div 20, Milli - (likelihood * 8) \div 10)
        evidence == likelihood * priorBefore + likelihoodNoFlood * (Milli - priorBefore)
        posterior == IF ~nan /\ evidence > 0
                     THEN (likelihood * priorBefore * Milli) \div evidence
                     ELSE priorBefore
        clamped == Max(Milli \div 100, Min((99 * Milli) \div 100, posterior))
        uncertainty == Max((3 * Milli) \div 100,
                           (250 * Milli) \div SqrtMilli(state.updateCount + 2))
        update == [evidenceType |-> evidenceType, priorBefore |-> priorBefore,
                   posteriorAfter |-> clamped, likelihoodUsed |-> likelihood,
                   delta |-> clamped - priorBefore]
    IN [state |-> [state EXCEPT !.posterior = clamped,
                                !.likelihood = likelihood,
                                !.evidenceStrength = IF nan THEN NotANumber
                                                     ELSE evidence \div Milli,
                                !.updateCount = @ + 1,
                                !.confidenceInterval = <<Max(0, clamped - uncertainty),
                                                         Min(Milli, clamped + uncertainty)>>,
                                !.history = Append(@, update)],
        out |-> [call |-> "update", evidenceType |-> evidenceType, threw |-> "nothing",
                 update |-> update]]

\* BayesianRiskEngine.update(evidenceType, observedValue)
update(state, evidenceType, observedValue) ==
    IF evidenceType \in OwnEvidenceTypes
    THEN Posterior(state, evidenceType, LIKELIHOOD_TABLE(evidenceType, observedValue))
    ELSE IF evidenceType \in InheritedFunctions
    THEN Posterior(state, evidenceType, InheritedCall(evidenceType, observedValue))
    ELSE IF evidenceType \in InheritedObjects
    THEN [state |-> state,
          out |-> [call |-> "update", evidenceType |-> evidenceType,
                   threw |-> "TypeError: likelihoodFn is not a function"]]
    ELSE [state |-> state,
          out |-> [call |-> "update", evidenceType |-> evidenceType,
                   threw |-> "Unknown evidence type"]]

\* new BayesianRiskEngine(): `before` is the state before the last call
NewBayes ==
    [state |-> BayesianState((15 * Milli) \div 100),
     before |-> BayesianState((15 * Milli) \div 100),
     out |-> [call |-> "none"], updates |-> 0, resets |-> 0]

\* ---------------------------------------------------------------------------
\* floodGrid.ts, lines 432-497: the seeded generator. A 32-bit word is a pair
\* <<high half, low half>> of 16-bit numbers.

Half == 65536

\* bitwise operations on 16-bit numbers, bit by bit
RECURSIVE Xor16(_, _, _)
Xor16(a, b, bits) ==
    IF bits = 0 THEN 0
    ELSE (((a % 2) + (b % 2)) % 2) + 2 * Xor16(a \div 2, b \div 2, bits - 1)

RECURSIVE Or16(_, _, _)
Or16(a, b, bits) ==
    IF bits = 0 THEN 0
    ELSE Max(a % 2, b % 2) + 2 * Or16(a \div 2, b \div 2, bits - 1)

\* a ^ b, a | b on words
WordXor(a, b) == <<Xor16(a[1], b[1], 16), Xor16(a[2], b[2], 16)>>
WordOr(a, b) == <<Or16(a[1], b[1], 16), Or16(a[2], b[2], 16)>>

\* 2 to the power k
RECURSIVE Pow2(_)
Pow2(k) == IF k = 0 THEN 1 ELSE 2 * Pow2(k - 1)

\* a >>> k, for k below 16
WordShiftRight(a, k) ==
    <<a[1] \div Pow2(k), (a[2] \div Pow2(k)) + (a[1] % Pow2(k)) * Pow2(16 - k)>>

\* (a + b) | 0: the sum modulo 2^32
WordAdd(a, b) ==
    <<(a[1] + b[1] + ((a[2] + b[2]) \div Half)) % Half, (a[2] + b[2]) % Half>>

\* Math.imul(a, b): the low 32 bits of the product, from the products of the
\* bytes of a and b
WordMul(a, b) ==
    LET a0 == a[2] % 256
        a1 == a[2] \div 256
        a2 == a[1] % 256
        a3 == a[1] \div 256
        b0 == b[2] % 256
        b1 == b[2] \div 256
        b2 == b[1] % 256
        b3 == b[1] \div 256
        p0 == a0 * b0
        p1 == a0 * b1 + a1 * b0
        p2 == a0 * b2 + a1 * b1 + a2 * b0
        p3 == a0 * b3 + a1 * b2 + a2 * b1 + a3 * b0
        low == p0 + (p1 % 256) * 256
    IN <<((low \div Half) + (p1 \div 256) + p2 + (p3 % 256) * 256) % Half, low % Half>>

\* seed |= 0 for the small non-negative seeds used
ToWord(seed) == <<seed \div Half, seed % Half>>

\* 0x6D2B79F5
Increment == <<27947, 31221>>

\* lines 441-447: one call of the function mulberry32 returns; `seed` is the
\* closure's variable. The value returned is `value` / 4294967296.
mulberry32(seed) ==
    LET next == WordAdd(seed, Increment)
        t1 == WordMul(WordXor(next, WordShiftRight(next, 15)), WordOr(<<0, 1>>, next))
        t2 == WordXor(WordAdd(t1, WordMul(WordXor(t1, WordShiftRight(t1, 7)),
                                          WordOr(<<0, 61>>, t1))),
                      t1)
    IN [seed |-> next, value |-> WordXor(t2, WordShiftRight(t2, 14))]

\* new SeededRNG(seed): `state` is the variable of the closure held in rng
SeededRNG(seed) == [seed |-> seed, state |-> ToWord(seed), callCount |-> 0]

\* SeededRNG.random: the generator afterwards and the value returned
random(G) ==
    LET drawn == mulberry32(G.state)
    IN [rng |-> [G EXCEPT !.callCount = @ + 1, !.state = drawn.seed],
        value |-> drawn.value]

\* A reseed that leaves the old closure in place.
reseedKeepingClosure(G, seed) == [G EXCEPT !.seed = seed, !.callCount = 0]

\* SeededRNG.reseed
reseed(G, seed) == [seed |-> seed, state |-> ToWord(seed), callCount |-> 0]

\* The seeds given: the global instance's, the tests' second one, and 1
Seeds == {42, 99, 1}

\* Two generators with one seed; `first` and `second` are the values each has
\* returned since it was given its seed, `advanced` the number of values the
\* first had returned when it was reseeded.
RngsWith(seed) ==
    [one |-> SeededRNG(seed), other |-> SeededRNG(seed), first |-> << >>,
     second |-> << >>, reseeds |-> 0, advanced |-> 0]

\* export const seededRng = new SeededRNG(42), next to another one like it
NewRngs == RngsWith(42)

\* ---------------------------------------------------------------------------
\* crisisEngine.ts, lines 568-577: the figures of the resolution step.

\* A reduction that is not kept from going below zero.
riskReductionUnclamped(peakRisk, finalRisk) == peakRisk - finalRisk

\* line 570: Math.max(0, peakRisk - finalRisk)
riskReduction(peakRisk, finalRisk) == Max(0, peakRisk - finalRisk)

\* The quotients (reduction, peak) whose product with 100 is a half above an
\* integer in exact arithmetic but falls below the half in double precision:
\* (23 / 40) * 100 and (46 / 80) * 100 are 57.49999999999999.
BelowHalfInDoubles == {<<23, 40>>, <<46, 80>>}

\* line 576: Math.round((riskReduction / Math.max(1, peakRisk)) * 100), in
\* double precision; Math.round takes a half upwards
damagePrevented(reduction, peakRisk) ==
    LET divisor == Max(1, peakRisk)
        halfUp == (200 * reduction + divisor) \div (2 * divisor)
    IN IF <<reduction, peakRisk>> \in BelowHalfInDoubles THEN halfUp - 1 ELSE halfUp

NoMetrics == [set |-> FALSE]

\* lines 572-577: s.setMetrics({ riskReduction, ..., damagePrevented })
setMetrics(peakRisk, finalRisk) ==
    [set |-> TRUE,
     riskReduction |-> riskReduction(peakRisk, finalRisk),
     damagePrevented |-> damagePrevented(riskReduction(peakRisk, finalRisk), peakRisk)]

\* The two risks the step starts from, and no metrics set yet
ResolutionOf(peakRisk, finalRisk) ==
    [peakRisk |-> peakRisk, finalRisk |-> finalRisk, metrics |-> NoMetrics]

\* the fallback peak and the final risk without telemetry (line 568)
NewResolution == ResolutionOf(FallbackRisk, 15)

\* ---------------------------------------------------------------------------
\* The zones of the store (ControlCenter.tsx, lines 611-620, 682-687, 715-722)
\* and the writes runCrisisSequence and its agents make to them.

\* 'zone-1' .. 'zone-8'
ZoneIds == 1..8

\* defaultZones: every zone normal, with its base risk level
defaultZones ==
    [z \in ZoneIds |->
        [status |-> "normal", riskLevel |-> <<12, 8, 5, 15, 6, 10, 20, 18>>[z]]]

\* setZoneStatus: a new zones array in which the zone of that id has the given
\* status and risk level; the array it was made from is left as it was
setZoneStatus(zones, zoneId, status, level) ==
    [z \in DOMAIN zones |->
        IF z = zoneId THEN [status |-> status, riskLevel |-> level] ELSE zones[z]]

\* Math.floor(seededRng.range(5, 15)): an integer from 5 to 14; the two ends
RestoredRisks == {5, 14}

\* mcResult.mean, a rounded percentage
MonteCarloMeans == {40, 80}

RECURSIVE restoreZones(_, _, _, _)
\* crisisEngine.ts, lines 596-600: s.zones.forEach over the zones array that
\* `s` holds, writing to the current store the zones that are not normal in it
restoreZones(zones, sZones, risks, z) ==
    IF z > Len(risks) THEN zones
    ELSE IF sZones[z].status # "normal"
         THEN restoreZones(setZoneStatus(zones, z, "normal", risks[z]), sZones, risks, z + 1)
         ELSE restoreZones(zones, sZones, risks, z + 1)

\* The store's zones and status with no run in progress: `s` is the zones array
\* of the state object runCrisisSequence took at its start (const s = store()),
\* `marked` the zones the run in progress or just ended has written a status
\* other than normal to.
ZoneRunAt(zones, status, runsStarted) ==
    [zones |-> zones, crisisStatus |-> status, pc |-> "none", s |-> zones,
     risk |-> "off", simulation |-> "off", isDemo |-> FALSE, marked |-> {},
     runsStarted |-> runsStarted]

NewZoneRun == ZoneRunAt(defaultZones, "idle", 0)

\* ---------------------------------------------------------------------------
\* server/index.js: the crisis flag, and the timers an injection starts.

\* phaseAdvances (lines 95-118): the delay and the status of each notification
phaseAdvances ==
    << [t |-> 3000, status |-> "detected"], [t |-> 8000, status |-> "simulating"],
       [t |-> 15000, status |-> "negotiating"], [t |-> 22000, status |-> "mitigating"],
       [t |-> 30000, status |-> "mitigated"] >>

\* the period of agentLogGenerator (line 90)
LogInterval == 3500

\* Time passes in steps of the largest duration that divides every delay.
Quantum ==
    CHOOSE d \in 1..LogInterval :
        /\ LogInterval % d = 0
        /\ \A i \in 1..Len(phaseAdvances) : phaseAdvances[i].t % d = 0
        /\ \A e \in (d + 1)..LogInterval :
              ~(/\ LogInterval % e = 0
                /\ \A i \in 1..Len(phaseAdvances) : phaseAdvances[i].t % e = 0)

\* let crisisActive = false (line 16), no timer armed, nothing emitted.
\* `timers` holds the pending setTimeout callbacks and the live intervals in
\* the order they were created, each with the injection that created it and
\* the time left; `emitted` the crisis:serverPhase notifications sent, each
\* with the injection whose callback sent it (0 for the resolve handler) and,
\* for a resolve, the number of injections made before it.
NewServer ==
    [crisisActive |-> FALSE, injections |-> 0, resolves |-> 0, timers |-> << >>,
     emitted |-> << >>]

\* phaseAdvances.forEach(p => setTimeout(p.fn, p.t)) for the injection `crisis`
PhaseTimers(crisis) ==
    [i \in 1..Len(phaseAdvances) |->
        [kind |-> "phase", crisis |-> crisis, status |-> phaseAdvances[i].status,
         left |-> phaseAdvances[i].t]]

\* emitPhaseChange (lines 120-124): nothing unless crisisActive
emitPhaseChange(S, crisis, status) ==
    IF ~S.crisisActive THEN S.emitted
    ELSE Append(S.emitted, [crisis |-> crisis, status |-> status, upTo |-> 0])

\* No direct negotiation call is being made.
NoCall == [pc |-> "none"]

\* The store, the engine and the loop as constructed; no run started.
Constructed ==
    /\ crisisStatus = "idle"
    /\ humanInLoop = TRUE
    /\ demoMode = FALSE
    /\ awaitingHumanApproval = FALSE
    /\ liveTelemetry = NoTelemetry
    /\ riskLevel = InitialRisk
    /\ logs = << >>
    /\ auditTrail = << >>
    /\ stateTransitions = << >>
    /\ previousHash = GenesisHash
    /\ events = << >>
    /\ subs = << >>
    /\ simulationRunning = FALSE
    /\ lastRisk = 0
    /\ mitigationInterruptFired = FALSE
    /\ tickTimer = NoTimer
    /\ lastRiskSource = "start"
    /\ runs = [r \in RunIds |-> NoRun]
    /\ nextRun = 1
    /\ demo = NoDemo
    /\ faults = 0
    /\ timerList = << >>
    /\ lastOp = NoOp

Init ==
    /\ Constructed
    /\ neg = NoCall
    /\ es = NewEventStore
    /\ bus = NewBus
    /\ twin = NewTwin
    /\ floodGrid = NewFloodGrid
    /\ bayes = NewBayes
    /\ rng = NewRngs
    /\ resolved = NewResolution
    /\ zoneRun = NewZoneRun
    /\ server = NewServer

\* The run's own writes of the crisis status, in order (for the properties).
Note(R, W0, W1) ==
    IF W1.crisisStatus # W0.crisisStatus
    THEN [R EXCEPT !.path = Append(@, W1.crisisStatus)]
    ELSE R

\* The delay a run (or an agent procedure, or the demo sequence) is suspended
\* in at each program point; 0 for the await of crypto.subtle.digest.  The
\* negotiation's duration depends on its rounds: see Negotiate.
DelayAt ==
    [sentinel |-> 1200 + 1000 + 800 + 600,
     r1 |-> 1400, r2 |-> 1000, r3 |-> 800,
     m1 |-> 1500, m2 |-> 1000, m3 |-> 1200, m4 |-> 800,
     q1 |-> 1300, q2 |-> 700,
     hashConv |-> 0, plan |-> 600 + 1200 + 600 + 600 + 600, p5 |-> 500,
     gov |-> 1200 + 600 + 600, auto |-> 600, signed |-> 500,
     hashGov |-> 0, g4 |-> 500,
     e2 |-> 1500 + 1200 + 1500, e4 |-> 2000 + 1200, e6 |-> 1500 + 1000, e7 |-> 1500,
     hashRes |-> 0, x0 |-> 1000, tail |-> 2000, demoDelay |-> 8000]

Goto(R, pc) == [R EXCEPT !.pc = pc, !.timer = DelayAt[pc]]

\* runCrisisSequence, lines 381-410: the resets, SEQUENCE_START, the first
\* transition, and runSentinelAgent up to its first delay.
BeginRun(W, r, isDemo) ==
    LET W1 == storeReset(busReset(W))
        W2 == [W1 EXCEPT !.previousHash = GenesisHash, !.logs = << >>]
        W3 == append(W2, "SEQUENCE_START", "System", << >>, r)
        W4 == transition(W3, "detected", "Sentinel", r)
        W5 == addAudit(W4, "CRISIS_DETECTED", "Sentinel", GenesisHash, r)
        W6 == append(W5, "CRISIS_DETECTED", "Sentinel", << >>, r)
        R == [NoRun EXCEPT !.pc = "sentinel", !.timer = DelayAt["sentinel"],
                           !.isDemo = isDemo,
                           !.sHumanInLoop = humanInLoop, !.sTelemetry = liveTelemetry,
                           !.startStatus = W.crisisStatus]
    IN [w |-> W6, run |-> Note(R, W, W6)]

\* ---------------------------------------------------------- phase 1
\* safeExecute, success path: eventStore.append('AGENT_COMPLETED', agentName, ...)
agentCompleted(W, agentName, r) == append(W, "AGENT_COMPLETED", agentName, << >>, r)

\* safeExecute, catch path: critical log, AGENT_FAILURE audit entry and event
agentFailed(W, agentName, r) ==
    LET W1 == addLog(W, agentName, "agent_failure", "critical")
        W2 == addAudit(W1, "AGENT_FAILURE", agentName, GenesisHash, r)
    IN append(W2, "AGENT_FAILURE", agentName, << >>, r)

\* The three safeExecute(...) calls of Promise.all, each run to its first delay.
SpawnAgents(R) ==
    [R EXCEPT !.pc = "join", !.timer = NoTimer, !.aTelemetry = liveTelemetry,
              !.agent = [Risk |-> [pc |-> "r1", timer |-> DelayAt["r1"], outcome |-> "running"],
                         Simulation |-> [pc |-> "m1", timer |-> DelayAt["m1"], outcome |-> "running"],
                         Resource |-> [pc |-> "q1", timer |-> DelayAt["q1"], outcome |-> "running"]]]

\* The end of runSentinelAgent (CRITICAL_THREAT) and of its safeExecute, then
\* lines 413-423: transition('simulating') and the parallel wake-up.
Detection(W, r, R) ==
    LET W3 == append(W, "CRITICAL_THREAT", "Sentinel", << >>, r)
        W4 == agentCompleted(W3, "Sentinel", r)
        W5 == transition(W4, "simulating", "Sentinel", r)
        W6 == addAudit(W5, "EVENT_BUS_DISPATCH", "Sentinel", GenesisHash, r)
    IN [w |-> W6, run |-> Note(SpawnAgents(R), W, W6)]

\* ---------------------------------------------------------- phase 2+3
AgentGoto(R, a, pc) ==
    [R EXCEPT !.agent[a] = [pc |-> pc, timer |-> DelayAt[pc], outcome |-> "running"]]

\* A safeExecute without its catch: the rejection is not turned into a settled
\* result, so the procedure never reports an outcome.
AgentSettleUncaught(R, a, outcome) ==
    [R EXCEPT !.agent[a] = [pc |-> "off", timer |-> NoTimer,
                            outcome |-> IF outcome = "failed" THEN "running" ELSE outcome]]

\* safeExecute returning: the procedure has settled with `outcome`.
AgentSettle(R, a, outcome) ==
    [R EXCEPT !.agent[a] = [pc |-> "off", timer |-> NoTimer, outcome |-> outcome]]

\* runRiskAgent after each delay
RiskAgent(W, r, R) ==
    CASE R.agent["Risk"].pc = "r1" ->
            LET liveRisk == RiskOr(R.aTelemetry, FallbackRisk)
                W1 == IF R.aTelemetry # NoTelemetry
                      THEN append(W, "BAYESIAN_UPDATE", "Risk", << >>, r) ELSE W
                W2 == animateRisk(W1, liveRisk)
                W3 == addAudit(W2, "RISK_ASSESSED", "Risk", GenesisHash, r)
            IN [w |-> W3, run |-> AgentGoto([R EXCEPT !.liveRisk = liveRisk], "Risk", "r2")]
      [] R.agent["Risk"].pc = "r2" -> [w |-> W, run |-> AgentGoto(R, "Risk", "r3")]
      [] R.agent["Risk"].pc = "r3" ->
            LET W1 == append(W, "RISK_COMPUTED", "Risk", << >>, r)
            IN [w |-> agentCompleted(W1, "Risk", r), run |-> AgentSettle(R, "Risk", "completed")]

\* runSimulationAgentBurst after each delay
SimulationAgent(W, r, R) ==
    CASE R.agent["Simulation"].pc = "m1" ->
            LET W1 == append(W, "GRAPH_SIMULATION", "Simulation", << >>, r)
                W2 == append(W1, "DIJKSTRA_ROUTING", "Simulation", << >>, r)
            IN [w |-> W2, run |-> AgentGoto(R, "Simulation", "m2")]
      [] R.agent["Simulation"].pc = "m2" -> [w |-> W, run |-> AgentGoto(R, "Simulation", "m3")]
      [] R.agent["Simulation"].pc = "m3" -> [w |-> W, run |-> AgentGoto(R, "Simulation", "m4")]
      [] R.agent["Simulation"].pc = "m4" ->
            LET W1 == addAudit(W, "SIMULATION_COMPLETE", "Simulation", GenesisHash, r)
                W2 == startContinuousSimulation(W1)
                W3 == append(W2, "MONTE_CARLO_COMPLETE", "Simulation", << >>, r)
            IN [w |-> agentCompleted(W3, "Simulation", r),
                run |-> AgentSettle([R EXCEPT !.hasMc = TRUE], "Simulation", "completed")]

\* runResourceAgent after each delay
ResourceAgent(W, r, R) ==
    CASE R.agent["Resource"].pc = "q1" -> [w |-> W, run |-> AgentGoto(R, "Resource", "q2")]
      [] R.agent["Resource"].pc = "q2" ->
            LET W1 == addAudit(W, "RESOURCE_AUDIT", "Resource", GenesisHash, r)
                W2 == append(W1, "RESOURCE_AUDIT", "Resource", << >>, r)
            IN [w |-> agentCompleted(W2, "Resource", r),
                run |-> AgentSettle([R EXCEPT !.inventory = AuditedInventory],
                                    "Resource", "completed")]

\* The fallback value safeExecute returns for a failed procedure.
Fallback(R, a) ==
    CASE a = "Risk" -> [R EXCEPT !.liveRisk = FallbackRisk]
      [] a = "Simulation" -> [R EXCEPT !.hasMc = FALSE]
      [] a = "Resource" -> [R EXCEPT !.inventory = FallbackInventory]

\* A join that opens as soon as one procedure has settled.
AnySettled(R) == \E a \in ParallelAgents : R.agent[a].outcome \in {"completed", "failed"}

\* Promise.all: the join is open once every procedure has settled.
AllSettled(R) == \A a \in ParallelAgents : R.agent[a].outcome \in {"completed", "failed"}

\* Lines 425-434 up to the digest await inside chainHashDecision:
\* data = previousHash + JSON.stringify(decision)
Converge(W, r, R) ==
    LET peakRisk == RiskOr(R.sTelemetry, R.liveRisk)
        W1 == animateRisk(W, peakRisk)
    IN [w |-> W1,
        run |-> Goto([R EXCEPT !.peakRisk = peakRisk, !.data = W1.previousHash,
                               !.joined = {a \in ParallelAgents :
                                             R.agent[a].outcome \in {"completed", "failed"}},
                               !.aTelemetry = NoTelemetry, !.liveRisk = 0],
                     "hashConv")]

\* The continuation of the await Promise.all runs in the task that settles the
\* last procedure.
Join(W, r, R) ==
    IF R.pc = "join" /\ AllSettled(R) THEN Converge(W, r, R) ELSE [w |-> W, run |-> R]

\* ---------------------------------------------------------- negotiation
\* A constraint check that does not look at the pumps.
checkFeasibilityNoPumps(demand, inventory) ==
    LET zoneOverflow == demand.zones > inventory.maxSimultaneousZones
        fleet == /\ demand.totalPopulation > inventory.evacuationVehicles * 55
                 /\ demand.priority = "immediate"
        shelter == demand.totalPopulation > inventory.shelterCapacity
        issues == (IF zoneOverflow THEN {"zone"} ELSE {})
                    \cup (IF fleet THEN {"fleet"} ELSE {})
                    \cup (IF shelter THEN {"shelter"} ELSE {})
    IN [feasible |-> issues = {},
        issues |-> issues,
        fixPriority |-> zoneOverflow \/ fleet,
        fixPumps |-> FALSE]

\* checkFeasibility: one issue pushed per violated constraint (lines 49-78), and
\* feasible exactly when no issue was pushed (lines 80-82).
checkFeasibility(demand, inventory) ==
    LET zoneOverflow == demand.zones > inventory.maxSimultaneousZones
        pumpDeficit == demand.pumpsRequested > inventory.pumpUnits
        fleet == /\ demand.totalPopulation > inventory.evacuationVehicles * 55
                 /\ demand.priority = "immediate"
        shelter == demand.totalPopulation > inventory.shelterCapacity
        issues == (IF zoneOverflow THEN {"zone"} ELSE {})
                    \cup (IF pumpDeficit THEN {"pump"} ELSE {})
                    \cup (IF fleet THEN {"fleet"} ELSE {})
                    \cup (IF shelter THEN {"shelter"} ELSE {})
    IN [feasible |-> issues = {},
        issues |-> issues,
        fixPriority |-> zoneOverflow \/ fleet,
        fixPumps |-> pumpDeficit]

\* An adaptation that takes the priority fix only.
AdaptPriorityOnly(demand, inventory) ==
    LET check == checkFeasibility(demand, inventory)
    IN [demand EXCEPT !.priority = IF check.fixPriority THEN "staggered" ELSE @]

\* An adaptation that takes one fix per round: the priority first, the pumps
\* in a later round.
AdaptOneFixPerRound(demand, inventory) ==
    LET check == checkFeasibility(demand, inventory)
    IN IF check.fixPriority /\ demand.priority # "staggered"
       THEN [demand EXCEPT !.priority = "staggered"]
       ELSE [demand EXCEPT !.pumpsRequested =
                               IF check.fixPumps THEN inventory.pumpUnits ELSE @]

\* "Response agent adapts demand" (lines 209-218)
Adapt(demand, inventory) ==
    LET check == checkFeasibility(demand, inventory)
    IN [demand EXCEPT !.priority = IF check.fixPriority THEN "staggered" ELSE @,
                      !.pumpsRequested = IF check.fixPumps THEN inventory.pumpUnits ELSE @]

\* A loop that admits one round more than maxRounds.
LoopGuardInclusive(round, maxRounds) == round <= maxRounds

\* while (round < maxRounds)
LoopGuard(round, maxRounds) == round < maxRounds

RECURSIVE Negotiate(_, _, _, _)
\* The loop `while (round < maxRounds)` of runDynamicNegotiation, entered with
\* `round` rounds done and `ms` milliseconds of delay spent: the value it
\* returns, whether it returned from the consensus branch, and the time taken.
Negotiate(demand, inventory, round, ms) ==
    IF ~LoopGuard(round, MaxNegotiationRounds)
    THEN [finalDemand |-> demand, rounds |-> round, consensus |-> FALSE, ms |-> ms]
    ELSE IF checkFeasibility(demand, inventory).feasible
         THEN [finalDemand |-> demand, rounds |-> round + 1, consensus |-> TRUE,
               ms |-> ms + 1000 + 1000 + 600]
         ELSE Negotiate(Adapt(demand, inventory), inventory, round + 1,
                        ms + 1000 + 1000 + 800)

\* runDynamicNegotiation(initialDemand, inventory) from its first delay on
runDynamicNegotiation(initialDemand, inventory) ==
    Negotiate(initialDemand, inventory, 0, 800 + 600)

\* ---------------------------------------------------------- planning
Planning(W, r, R) ==
    CASE R.pc = "hashConv" ->
            LET hash == HashOf(R.data, [kind |-> "convergence", run |-> r])
                W1 == [W EXCEPT !.previousHash = hash]
                W2 == addAudit(W1, "AGENTS_CONVERGED", "Sentinel", hash, r)
                W3 == append(W2, "AGENTS_CONVERGED", "Sentinel", << >>, r)
            IN [w |-> W3, run |-> Goto(R, "plan")]
      [] R.pc = "plan" ->
            LET W1 == addAudit(W, "MITIGATION_PROPOSED", "Response", GenesisHash, r)
                W2 == append(W1, "MITIGATION_PROPOSED", "Response", << >>, r)
            IN [w |-> W2, run |-> Goto([R EXCEPT !.hasMc = FALSE], "p5")]
      [] R.pc = "p5" ->
            \* transition('negotiating'), then runDynamicNegotiation up to its
            \* first delay: it writes the status itself (negotiationEngine 123).
            LET W1 == transition(W, "negotiating", "Resource", r)
                W2 == setCrisisStatus(W1, "negotiating")
                result == runDynamicNegotiation(InitialDemand, R.inventory)
            IN [w |-> W2,
                run |-> Note([R EXCEPT !.pc = "neg", !.timer = result.ms,
                                       !.negotiation = result], W, W2)]
      [] R.pc = "neg" ->
            \* the negotiation returns: its closing audit entry, then lines 479-486
            LET W1 == IF R.negotiation.consensus
                      THEN addAudit(W, "NEGOTIATION_RESOLVED", "Resource", GenesisHash, r)
                      ELSE addLog(addAudit(W, "NEGOTIATION_TIMEOUT", "Resource",
                                           GenesisHash, r),
                                  "Resource", "max_rounds", "warning")
                W2 == append(W1, "NEGOTIATION_COMPLETE", "Resource", << >>, r)
            IN [w |-> W2, run |-> Goto(R, "gov")]

\* ---------------------------------------------------------- governance
setAwaitingHumanApproval(W, b) == [W EXCEPT !.awaitingHumanApproval = b]

\* eventBus.waitFor('HUMAN_APPROVAL_GIVEN', 'System', ...): a once-subscription
waitFor(W, r) == [W EXCEPT !.subs = Append(@, r)]

\* chainHashDecision up to its await: data = previousHash + JSON(decision)
HashBegin(W, R, pc) == Goto([R EXCEPT !.data = W.previousHash], pc)

Governance(W, r, R) ==
    CASE R.pc = "gov" ->
            IF R.sHumanInLoop
            THEN LET W1 == addLog(W, "Governance", "approval_required", "warning")
                     W2 == setAwaitingHumanApproval(W1, TRUE)
                     W3 == addAudit(W2, "HUMAN_APPROVAL_WAIT", "Governance", GenesisHash, r)
                     W4 == append(W3, "HUMAN_APPROVAL_WAIT", "Governance", << >>, r)
                 IN [w |-> waitFor(W4, r),
                     run |-> [R EXCEPT !.pc = "wait", !.timer = NoTimer,
                                       !.hitlAtApproval = humanInLoop]]
            ELSE [w |-> W, run |-> Goto([R EXCEPT !.hitlAtApproval = humanInLoop], "auto")]
      [] R.pc \in {"auto", "signed"} -> [w |-> W, run |-> HashBegin(W, R, "hashGov")]
      [] R.pc = "hashGov" ->
            LET hash == HashOf(R.data, [kind |-> "governance", run |-> r])
                W1 == [W EXCEPT !.previousHash = hash]
                W2 == addAudit(W1, "GOVERNANCE_APPROVED", "Governance", hash, r)
                W3 == append(W2, "GOVERNANCE_APPROVED", "Governance", << >>, r)
            IN [w |-> W3, run |-> Goto(R, "g4")]

\* The continuation of the wait once the grant signal has been delivered.
Granted(W, r, R) ==
    LET W1 == setAwaitingHumanApproval(W, FALSE)
        W2 == addAudit(W1, "HUMAN_APPROVAL_GRANTED", "Governance", GenesisHash, r)
        W3 == append(W2, "HUMAN_APPROVAL_GRANTED", "Governance", << >>, r)
    IN [w |-> W3, run |-> Goto([R EXCEPT !.granted = TRUE], "signed")]

\* ---------------------------------------------------------- execution
Execution(W, r, R) ==
    CASE R.pc = "g4" ->
            LET W1 == transition(W, "mitigating", "Response", r)
            IN [w |-> W1, run |-> Note(Goto(R, "e2"), W, W1)]
      [] R.pc = "e2" -> [w |-> animateRisk(W, RiskOr(liveTelemetry, 55)), run |-> Goto(R, "e4")]
      [] R.pc = "e4" -> [w |-> animateRisk(W, RiskOr(liveTelemetry, 35)), run |-> Goto(R, "e6")]
      [] R.pc = "e6" -> [w |-> animateRisk(W, 15), run |-> Goto(R, "e7")]

\* ---------------------------------------------------------- resolution
Resolution(W, r, R) ==
    CASE R.pc = "e7" ->
            LET W1 == transition(W, "mitigated", "Governance", r)
                W2 == stopContinuousSimulation(W1)
            IN [w |-> W2, run |-> Note(HashBegin(W2, R, "hashRes"), W, W2)]
      [] R.pc = "hashRes" ->
            LET hash == HashOf(R.data, [kind |-> "resolution", run |-> r])
                W1 == [W EXCEPT !.previousHash = hash]
                W2 == addAudit(W1, "CRISIS_RESOLVED", "Governance", hash, r)
                W3 == append(W2, "CRISIS_RESOLVED", "Governance", << >>, r)
                W4 == append(W3, "OBSERVABILITY", "System", << >>, r)
            IN [w |-> W4, run |-> Goto(R, "x0")]
      [] R.pc = "x0" ->
            LET W1 == animateRisk(W, 8)
                W2 == transition(W1, "resolved", "Sentinel", r)
                W3 == addAudit(W2, "SYSTEM_NOMINAL", "Sentinel", GenesisHash, r)
            IN [w |-> W3, run |-> Note(Goto(R, "tail"), W, W3)]
      [] R.pc = "tail" ->
            [w |-> busReset(W), run |-> Finished("done")]

PlanningPcs == {"hashConv", "plan", "p5", "neg"}
GovernancePcs == {"gov", "auto", "signed", "hashGov"}
ExecutionPcs == {"g4", "e2", "e4", "e6"}
ResolutionPcs == {"e7", "hashRes", "x0", "tail"}

\* ---------------------------------------------------------- scheduling
Due(t) == t = 0

\* Who a timer resumes: a run's main line, one of its agent procedures, or the
\* demo sequence.
OwnersOf(r) ==
    <<[run |-> r, who |-> "main"], [run |-> r, who |-> "Risk"],
      [run |-> r, who |-> "Simulation"], [run |-> r, who |-> "Resource"]>>
DemoOwner == [run |-> 0, who |-> "demo"]
TickOwner == [run |-> 0, who |-> "tick"]
NoOwner == [run |-> 0, who |-> "none"]

RECURSIVE OwnersFrom(_)
OwnersFrom(r) == IF r > MaxRuns THEN <<DemoOwner, TickOwner>> ELSE OwnersOf(r) \o OwnersFrom(r + 1)
Owners == OwnersFrom(1)

TimerOf(RS, D, T, o) ==
    IF o.who = "demo" THEN D.timer
    ELSE IF o.who = "tick" THEN T
    ELSE IF o.who = "main" THEN RS[o.run].timer
    ELSE RS[o.run].agent[o.who].timer

\* The timer list after a task: the timer that fired is gone, the timers the
\* task registered (those of `cand`, in that order) are at the end.
Requeue(q, fired, RS, D, T, cand) ==
    LET kept == SelectSeq(q, LAMBDA o : o # fired /\ TimerOf(RS, D, T, o) # NoTimer)
        InKept(o) == \E i \in 1..Len(kept) : kept[i] = o
        fresh == SelectSeq(cand, LAMBDA o : TimerOf(RS, D, T, o) # NoTimer /\ ~InKept(o))
    IN kept \o fresh

\* Timers with the same expiry fire in the order they were registered.
DueOwners == SelectSeq(timerList, LAMBDA o : Due(TimerOf(runs, demo, tickTimer, o)))
Turn(o) == DueOwners # << >> /\ Head(DueOwners) = o

\* No timer callback is due: input events are dispatched then.
EventLoopIdle == DueOwners = << >>

Timers ==
    {runs[r].timer : r \in RunIds}
        \cup {runs[r].agent[a].timer : r \in RunIds, a \in ParallelAgents}
        \cup {demo.timer}

\* True when no delay() of a run, an agent procedure or the demo is pending.
Quiescent == \A t \in Timers : t = NoTimer

Elapse(t, d) == IF t > 0 THEN t - d ELSE t

\* The timers the event loop has work for.  A tick that finds no telemetry
\* returns at once (runSimulationTick, line 323) and the interval goes on: time
\* is not stopped for it, the interval only keeps its phase.
Stops == Timers \cup (IF liveTelemetry # NoTelemetry THEN {tickTimer} ELSE {})

ElapseInterval(t, d) == IF t = NoTimer THEN NoTimer ELSE (t - d) % TICK_INTERVAL_MS

\* The event loop is idle until the earliest pending timer expires.
Advance ==
    /\ EventLoopIdle
    /\ \E d \in Stops :
        /\ d > 0
        /\ \A t \in Stops : t > 0 => d <= t
        /\ tickTimer' = ElapseInterval(tickTimer, d)
        /\ runs' = [r \in RunIds |->
                      [runs[r] EXCEPT !.timer = Elapse(@, d),
                                      !.agent = [a \in ParallelAgents |->
                                                   [@[a] EXCEPT !.timer = Elapse(@, d)]]]]
        /\ demo' = [demo EXCEPT !.timer = Elapse(@, d)]
    /\ lastOp' = NoOp
    /\ UNCHANGED <<storeVars, engineVars, nextRun, faults, timerList>>
    /\ UNCHANGED <<simulationRunning, lastRisk, mitigationInterruptFired, lastRiskSource>>
    /\ UNCHANGED harnessVars

\* ---------------------------------------------------------- controls
\* InjectCrisisButton: the main button starts a run only in status idle.
Inject ==
    /\ EventLoopIdle
    /\ crisisStatus = "idle"
    /\ nextRun <= MaxRuns
    /\ LET b == BeginRun(World, nextRun, FALSE)
       IN /\ Commit(b.w)
          /\ runs' = [runs EXCEPT ![nextRun] = b.run]
    /\ nextRun' = nextRun + 1
    /\ UNCHANGED <<humanInLoop, liveTelemetry, demo, faults>>
    /\ timerList' = Requeue(timerList, NoOwner, runs', demo', tickTimer', Owners)
    /\ UNCHANGED harnessVars

\* Demo Mode button: disabled when isRunning || demoMode.  runDemoSequence sets
\* the demo flag and enters runCrisisSequence.
Demo ==
    /\ EventLoopIdle
    /\ crisisStatus \in {"idle", "resolved"}
    /\ ~demoMode
    /\ nextRun <= MaxRuns
    /\ LET b == BeginRun([World EXCEPT !.demoMode = TRUE], nextRun, TRUE)
       IN /\ Commit(b.w)
          /\ runs' = [runs EXCEPT ![nextRun] = b.run]
    /\ demo' = [pc |-> "running", timer |-> NoTimer, run |-> nextRun]
    /\ nextRun' = nextRun + 1
    /\ UNCHANGED <<humanInLoop, liveTelemetry, faults>>
    /\ timerList' = Requeue(timerList, NoOwner, runs', demo', tickTimer', Owners)
    /\ UNCHANGED harnessVars

\* Both reset buttons: available when the status is idle or resolved.
Reset ==
    /\ EventLoopIdle
    /\ crisisStatus \in {"idle", "resolved"}
    /\ Commit(resetSystem(World))
    /\ UNCHANGED <<humanInLoop, liveTelemetry, procVars>>
    /\ UNCHANGED harnessVars

\* The world as a step that calls neither transition() nor the bus leaves it.
Keep == [World EXCEPT !.lastOp = lastOp]

\* The human-in-the-loop switch of the control centre, never disabled.
ToggleHumanInLoop ==
    /\ EventLoopIdle
    /\ humanInLoop' = ~humanInLoop
    /\ Commit(Keep)
    /\ UNCHANGED <<liveTelemetry, procVars>>
    /\ UNCHANGED harnessVars

\* The telemetry feed delivers a packet to the store.
Telemetry ==
    /\ \E t \in TelemetryFeed :
        /\ liveTelemetry # <<t>>
        /\ liveTelemetry' = <<t>>
    /\ Commit(Keep)
    /\ UNCHANGED <<humanInLoop, procVars>>
    /\ UNCHANGED harnessVars

RECURSIVE GrantAll(_, _, _)
\* emit('HUMAN_APPROVAL_GIVEN'): the once-handlers in registration order; each
\* resolves its waitFor promise, whose continuation runs in the same task.
GrantAll(W, RS, q) ==
    IF q = << >> THEN [w |-> W, runs |-> RS]
    ELSE LET g == Granted(W, Head(q), RS[Head(q)])
         IN GrantAll(g.w, [RS EXCEPT ![Head(q)] = g.run], Tail(q))

\* GovernancePanel: the approve button, shown while awaitingHumanApproval.
Approve ==
    /\ EventLoopIdle
    /\ awaitingHumanApproval
    /\ LET g == GrantAll([World EXCEPT !.subs = << >>, !.lastOp = [op |-> "grant"]],
                         runs, subs)
       IN /\ Commit(g.w)
          /\ runs' = g.runs
    /\ UNCHANGED <<humanInLoop, liveTelemetry, nextRun, demo, faults>>
    /\ timerList' = Requeue(timerList, NoOwner, runs', demo', tickTimer', [i \in 1..Len(subs) |-> [run |-> subs[i], who |-> "main"]])
    /\ UNCHANGED harnessVars

\* ---------------------------------------------------------- run steps
Resume(r, res) ==
    /\ Commit(res.w)
    /\ runs' = [runs EXCEPT ![r] = res.run]

RunDue(r, pcs) == runs[r].pc \in pcs /\ Turn(OwnersOf(r)[1])

DetectionStep(r) ==
    /\ RunDue(r, {"sentinel"})
    /\ Resume(r, Detection(World, r, runs[r]))
    /\ UNCHANGED <<humanInLoop, liveTelemetry, nextRun, demo, faults>>
    /\ timerList' = Requeue(timerList, OwnersOf(r)[1], runs', demo', tickTimer', Owners)
    /\ UNCHANGED harnessVars

AgentDue(r, a) == runs[r].agent[a].outcome = "running" /\ Turn([run |-> r, who |-> a])

AgentResume(r, res) == Resume(r, Join(res.w, r, res.run))

RiskStep(r) ==
    /\ AgentDue(r, "Risk")
    /\ AgentResume(r, RiskAgent(World, r, runs[r]))
    /\ UNCHANGED <<humanInLoop, liveTelemetry, nextRun, demo, faults>>
    /\ timerList' = Requeue(timerList, [run |-> r, who |-> "Risk"], runs', demo', tickTimer', Owners)
    /\ UNCHANGED harnessVars

SimulationStep(r) ==
    /\ AgentDue(r, "Simulation")
    /\ AgentResume(r, SimulationAgent(World, r, runs[r]))
    /\ UNCHANGED <<humanInLoop, liveTelemetry, nextRun, demo, faults>>
    /\ timerList' = Requeue(timerList, [run |-> r, who |-> "Simulation"], runs', demo', tickTimer', Owners)
    /\ UNCHANGED harnessVars

ResourceStep(r) ==
    /\ AgentDue(r, "Resource")
    /\ AgentResume(r, ResourceAgent(World, r, runs[r]))
    /\ UNCHANGED <<humanInLoop, liveTelemetry, nextRun, demo, faults>>
    /\ timerList' = Requeue(timerList, [run |-> r, who |-> "Resource"], runs', demo', tickTimer', Owners)
    /\ UNCHANGED harnessVars

\* An agent procedure throws when resumed; safeExecute catches.
AgentFail(r, a) ==
    /\ AgentDue(r, a)
    /\ faults < MaxFaults
    /\ AgentResume(r, [w |-> agentFailed(World, a, r),
                       run |-> Fallback(AgentSettle([runs[r] EXCEPT !.failed = @ \cup {a}],
                                                    a, "failed"), a)])
    /\ faults' = faults + 1
    /\ UNCHANGED <<humanInLoop, liveTelemetry, nextRun, demo>>
    /\ timerList' = Requeue(timerList, [run |-> r, who |-> a], runs', demo', tickTimer', Owners)
    /\ UNCHANGED harnessVars

PlanningStep(r) ==
    /\ RunDue(r, PlanningPcs)
    /\ Resume(r, Planning(World, r, runs[r]))
    /\ UNCHANGED <<humanInLoop, liveTelemetry, nextRun, demo, faults>>
    /\ timerList' = Requeue(timerList, OwnersOf(r)[1], runs', demo', tickTimer', Owners)
    /\ UNCHANGED harnessVars

GovernanceStep(r) ==
    /\ RunDue(r, GovernancePcs)
    /\ Resume(r, Governance(World, r, runs[r]))
    /\ UNCHANGED <<humanInLoop, liveTelemetry, nextRun, demo, faults>>
    /\ timerList' = Requeue(timerList, OwnersOf(r)[1], runs', demo', tickTimer', Owners)
    /\ UNCHANGED harnessVars

ExecutionStep(r) ==
    /\ RunDue(r, ExecutionPcs)
    /\ Resume(r, Execution(World, r, runs[r]))
    /\ UNCHANGED <<humanInLoop, liveTelemetry, nextRun, demo, faults>>
    /\ timerList' = Requeue(timerList, OwnersOf(r)[1], runs', demo', tickTimer', Owners)
    /\ UNCHANGED harnessVars

\* The last steps of runCrisisSequence; when it returns inside
\* runDemoSequence, the demo goes on to its own delay(8000).
ResolutionStep(r) ==
    /\ RunDue(r, ResolutionPcs)
    /\ Resume(r, Resolution(World, r, runs[r]))
    /\ demo' = IF runs[r].pc = "tail" /\ runs[r].isDemo
               THEN [demo EXCEPT !.pc = "demoDelay", !.timer = DelayAt["demoDelay"]]
               ELSE demo
    /\ UNCHANGED <<humanInLoop, liveTelemetry, nextRun, faults>>
    /\ timerList' = Requeue(timerList, OwnersOf(r)[1], runs', demo', tickTimer', Owners)
    /\ UNCHANGED harnessVars

\* runDemoSequence after its delay: stop the loop, reset the store, clear the flag.
DemoTail ==
    /\ demo.pc = "demoDelay"
    /\ Turn(DemoOwner)
    /\ LET W1 == stopContinuousSimulation(World)
           W2 == resetSystem(W1)
       IN Commit([W2 EXCEPT !.demoMode = FALSE])
    /\ demo' = NoDemo
    /\ UNCHANGED <<humanInLoop, liveTelemetry, runs, nextRun, faults>>
    /\ timerList' = Requeue(timerList, DemoOwner, runs', demo', tickTimer', Owners)
    /\ UNCHANGED harnessVars

Remove(q, x) == SelectSeq(q, LAMBDA y : y # x)

\* waitFor's timer (24 h, far beyond every other delay): unsubscribe and
\* reject.  The rejection propagates out of runCrisisSequence (and
\* runDemoSequence), which has no handler for it.
WaitTimeout(r) ==
    /\ runs[r].pc = "wait"
    /\ Quiescent
    /\ Commit([World EXCEPT !.subs = Remove(@, r)])
    /\ runs' = [runs EXCEPT ![r] = Finished("aborted")]
    /\ demo' = IF demo.run = r THEN [demo EXCEPT !.pc = "aborted"] ELSE demo
    /\ UNCHANGED <<humanInLoop, liveTelemetry, nextRun, faults, timerList>>
    /\ UNCHANGED harnessVars

\* What one tick that computed a risk observed and did.
TickRecord(W, currentRisk, fired) ==
    [op |-> "tick", status |-> W.crisisStatus, currentRisk |-> currentRisk,
     lastRisk |-> W.lastRisk, source |-> W.lastRiskSource,
     latched |-> W.mitigationInterruptFired, fired |-> fired]

\* The interrupt branch of runSimulationTick (lines 386-404)
mitigationInterrupt(W) ==
    LET A1 == addLog([W EXCEPT !.mitigationInterruptFired = TRUE],
                     "Simulation", "mitigation_failure", "critical")
        A2 == addAudit(A1, "MITIGATION_INTERRUPT", "Simulation", GenesisHash, 0)
    IN addAudit(A2, "EMERGENCY_REAUTH", "Governance", GenesisHash, 0)

\* A tick whose interrupt is not one-shot: the latch is not consulted.
runSimulationTickUnlatched(W) ==
    IF ~W.simulationRunning \/ liveTelemetry = NoTelemetry THEN W
    ELSE LET currentRisk == calculateLiveRisk(liveTelemetry[1])
             fire == /\ W.crisisStatus = "mitigating"
                     /\ currentRisk - W.lastRisk > RISK_ESCALATION_THRESHOLD
             W1 == IF fire THEN mitigationInterrupt(W) ELSE W
         IN [W1 EXCEPT !.lastRisk = currentRisk, !.lastRiskSource = "tick",
                       !.lastOp = TickRecord(W, currentRisk, fire)]

\* runSimulationTick, called by the interval timer
runSimulationTick(W) ==
    IF ~W.simulationRunning \/ liveTelemetry = NoTelemetry THEN W
    ELSE LET currentRisk == calculateLiveRisk(liveTelemetry[1])
             fire == /\ W.crisisStatus = "mitigating"
                     /\ ~W.mitigationInterruptFired
                     /\ currentRisk - W.lastRisk > RISK_ESCALATION_THRESHOLD
             W1 == IF fire THEN mitigationInterrupt(W) ELSE W
         IN [W1 EXCEPT !.lastRisk = currentRisk, !.lastRiskSource = "tick",
                       !.lastOp = TickRecord(W, currentRisk, fire)]

SimTick ==
    /\ Turn(TickOwner)
    /\ Commit(runSimulationTick([Keep EXCEPT !.tickTimer = TICK_INTERVAL_MS]))
    /\ UNCHANGED <<humanInLoop, liveTelemetry, runs, nextRun, demo, faults>>
    /\ timerList' = Requeue(timerList, TickOwner, runs', demo', tickTimer', Owners)
    /\ UNCHANGED harnessVars

\* ------------------------------------------- a direct negotiation call
\* The demands and inventories a direct call is made with: the orchestrator's
\* own, and values on either side of each constraint of checkFeasibility.
NegotiationDemands ==
    [zones : 1..2, totalPopulation : {1500, 67000},
     priority : {"immediate", "staggered"}, pumpsRequested : {2, 5}]

AmpleInventory ==
    [pumpUnits |-> 4, evacuationVehicles |-> 42, maxSimultaneousZones |-> 2,
     shelterCapacity |-> 70000, medicalTeams |-> 6]

NegotiationInventories == {AuditedInventory, FallbackInventory, AmpleInventory}

NoCheck == [feasible |-> FALSE, issues |-> {}, fixPriority |-> FALSE, fixPumps |-> FALSE]

NoResult == [returned |-> FALSE]

\* runDynamicNegotiation(initialDemand, inventory, maxRounds) at its first line:
\* proposals = [], currentDemand = {...initialDemand}, round = 0
CallOf(initialDemand, inventory, maxRounds) ==
    [pc |-> "entry", initialDemand |-> initialDemand, inventory |-> inventory,
     maxRounds |-> maxRounds, currentDemand |-> initialDemand, round |-> 0,
     proposals |-> << >>, check |-> NoCheck, fixes |-> 0,
     consensus |-> FALSE, timedOutEmitted |-> FALSE, result |-> NoResult]

NegotiationCalls ==
    {CallOf(d, i, m) : d \in NegotiationDemands, i \in NegotiationInventories,
                       m \in 0..MaxRoundsArg}

\* One stretch of the call between two awaits: the store writes W and the
\* call's next locals n.
NegotiationStep(W, n) ==
    /\ Commit(W)
    /\ neg' = n
    /\ UNCHANGED <<humanInLoop, liveTelemetry, procVars>>
    /\ UNCHANGED <<es, bus, twin, floodGrid, bayes, rng, resolved, zoneRun, server>>

\* lines 123-133: the status write and the two opening delays
NegEnter ==
    /\ neg.pc = "entry"
    /\ NegotiationStep(setCrisisStatus(Keep, "negotiating"), [neg EXCEPT !.pc = "loop"])

\* lines 135-153: the loop is entered, round++, the Response agent's proposal
NegPropose ==
    /\ neg.pc = "loop"
    /\ LoopGuard(neg.round, neg.maxRounds)
    /\ LET round == neg.round + 1
           W1 == IF round = 1
                 THEN addLog(Keep, "Response", "negotiation_demand", "warning")
                 ELSE Keep
       IN NegotiationStep(W1,
              [neg EXCEPT !.pc = "check", !.round = round,
                          !.proposals = Append(@, [round |-> round, from |-> "Response",
                                                   feasible |-> TRUE])])

\* lines 156-184: the Resource agent checks the constraints and answers
NegCheck ==
    /\ neg.pc = "check"
    /\ LET check == checkFeasibility(neg.currentDemand, neg.inventory)
           W1 == IF check.feasible
                 THEN Keep
                 ELSE addLog(Keep, "Resource", "negotiation_rejected", "warning")
       IN NegotiationStep(W1,
              [neg EXCEPT !.pc = "decide", !.check = check,
                          !.proposals = Append(@, [round |-> neg.round, from |-> "Resource",
                                                   feasible |-> check.feasible])])

\* lines 186-206: consensus; return { finalDemand, proposals, rounds }
NegConsensus ==
    /\ neg.pc = "decide"
    /\ neg.check.feasible
    /\ NegotiationStep(addAudit(Keep, "NEGOTIATION_RESOLVED", "Resource", GenesisHash, 0),
           [neg EXCEPT !.pc = "returned", !.consensus = TRUE,
                       !.result = [finalDemand |-> neg.currentDemand,
                                   proposals |-> neg.proposals,
                                   rounds |-> neg.round]])

\* lines 208-220: the Response agent takes the suggested fix; back to the loop test
NegAdapt ==
    /\ neg.pc = "decide"
    /\ ~neg.check.feasible
    /\ NegotiationStep(Keep,
           [neg EXCEPT !.pc = "loop", !.fixes = @ + 1,
                       !.currentDemand = Adapt(neg.currentDemand, neg.inventory)])

\* lines 223-234: the loop test fails; the audit entry and the log line, the bus
\* event with timedOut: true, and return { finalDemand, proposals, rounds }
NegTimeout ==
    /\ neg.pc = "loop"
    /\ ~LoopGuard(neg.round, neg.maxRounds)
    /\ NegotiationStep(addLog(addAudit(Keep, "NEGOTIATION_TIMEOUT", "Resource",
                                       GenesisHash, 0),
                              "Resource", "max_rounds", "warning"),
           [neg EXCEPT !.pc = "returned", !.timedOutEmitted = TRUE,
                       !.result = [finalDemand |-> neg.currentDemand,
                                   proposals |-> neg.proposals,
                                   rounds |-> neg.round]])

\* ------------------------------------------ the event store on its own
EventStoreStep(E) ==
    /\ es' = E
    /\ UNCHANGED <<programVars, neg, bus, twin, floodGrid, bayes, rng, resolved, zoneRun, server>>

EventStoreIdle == es.stack = << >>

\* eventStore.append(type, source, payload) called from outside a listener
EsAppend ==
    /\ EventStoreIdle
    /\ es.appends < MaxAppends
    /\ EventStoreStep(EventStoreAppend(es, "as_appended"))

EsSubscribe ==
    /\ EventStoreIdle
    /\ es.nextListener <= MaxListeners
    /\ EventStoreStep(EventStoreSubscribe(es))

EsUnsubscribe ==
    /\ EventStoreIdle
    /\ \E i \in 1..Len(es.listeners) :
        EventStoreStep(EventStoreUnsubscribe(es, es.listeners[i]))

EsReset ==
    /\ EventStoreIdle
    /\ es.resets < MaxResets
    /\ EventStoreStep(EventStoreReset(es))

\* lines 43-45: the innermost append in progress calls its next listener
EsNotify ==
    /\ es.stack # << >>
    /\ LET top == Len(es.stack)
           frame == es.stack[top]
       IN /\ frame.idx < Len(frame.listeners)
          /\ \E what \in {"return", "throw", "append", "reset", "subscribe", "unsubscribe"} :
                /\ ListenerCallAllowed(es, what)
                /\ EventStoreStep(ListenerCall([es EXCEPT !.stack[top].idx = @ + 1], what))

\* line 47: the loop is over and the innermost append returns its event
EsReturn ==
    /\ es.stack # << >>
    /\ LET top == Len(es.stack)
           frame == es.stack[top]
       IN /\ frame.idx >= Len(frame.listeners)
          /\ EventStoreStep([es EXCEPT !.stack = SubSeq(@, 1, top - 1)])

\* The appender writes a property of the payload object it passed to append.
\* Object.freeze(event) is shallow: the payload object itself is not frozen.
EsWritePayload ==
    \E ref \in 1..Len(es.heap), contents \in PayloadContents :
        /\ es.heap[ref] # contents
        /\ EventStoreStep([es EXCEPT !.heap[ref] = contents, !.lastCall = "write_payload"])

\* An assignment to a field of a stored event: the event is frozen and the
\* module is strict code, so the assignment throws a TypeError.
EsWriteEvent ==
    /\ es.events # << >>
    /\ es.lastCall # "write_event"
    /\ EventStoreStep([es EXCEPT !.lastCall = "write_event"])

\* --------------------------------------------- the event bus on its own
BusStep(B) ==
    /\ bus' = B
    /\ UNCHANGED <<programVars, neg, es, twin, floodGrid, bayes, rng, resolved, zoneRun, server>>

BusIdle == bus.stack = << >>

BusOn ==
    /\ BusIdle
    /\ Len(bus.info) < MaxSubs
    /\ BusStep(addSub(bus, "on"))

BusOnce ==
    /\ BusIdle
    /\ Len(bus.info) < MaxSubs
    /\ BusStep(addSub(bus, "once"))

BusWaitFor ==
    /\ BusIdle
    /\ Len(bus.info) < MaxSubs
    /\ BusStep(addSub(bus, "wait"))

BusUnsubscribe ==
    /\ BusIdle
    /\ \E id \in 1..Len(bus.info) :
        /\ HandlerCallAllowed(bus, "unsubscribe", id)
        /\ BusStep(unsubscribe(bus, id))

BusEmit ==
    /\ BusIdle
    /\ bus.emits < MaxEmits
    /\ BusStep(emit(bus))

BusReset ==
    /\ BusIdle
    /\ bus.resets < MaxResets
    /\ BusStep(subscriptionsClear(bus))

\* the timer of a pending waitFor expires
BusTimeout ==
    /\ BusIdle
    /\ \E id \in 1..Len(bus.info) :
        /\ bus.info[id].timer
        /\ BusStep(Timeout(bus, id))

\* the innermost emit in progress invokes its next handler
BusDeliver ==
    /\ bus.stack # << >>
    /\ LET frame == bus.stack[Len(bus.stack)]
       IN /\ frame.idx < Len(frame.subs)
          /\ \E what \in {"return", "throw", "emit", "on", "once", "unsubscribe", "reset"},
                target \in 1..Len(bus.info) :
                /\ what # "unsubscribe" => target = 1
                /\ HandlerCallAllowed(bus, what, target)
                /\ BusStep(Deliver(bus, what, target))

\* the innermost emit in progress has gone through its array
BusFinish ==
    /\ bus.stack # << >>
    /\ LET frame == bus.stack[Len(bus.stack)]
       IN /\ frame.idx >= Len(frame.subs)
          /\ BusStep(Finish(bus))

\* -------------------------------------------- the graph twin on its own
TwinStep(T) ==
    /\ twin' = T
    /\ UNCHANGED <<programVars, neg, es, bus, floodGrid, bayes, rng, resolved, zoneRun, server>>

\* The rainfall simulateFloodStep is called with: saturating rain (the test's)
\* and the orchestrator's base packet.
HeavyRainfall == 150
DefaultRainfall == 110

TwinFloodStep ==
    /\ twin.steps < MaxFloodSteps
    /\ \/ TwinStep([simulateFloodStep(twin, HeavyRainfall) EXCEPT !.steps = @ + 1])
       \/ /\ twin.light < MaxLightSteps
          /\ TwinStep([simulateFloodStep(twin, DefaultRainfall)
                          EXCEPT !.steps = @ + 1, !.light = @ + 1])

TwinReset ==
    /\ twin.resets < MaxResets
    /\ TwinStep([twinReset(twin) EXCEPT !.resets = @ + 1, !.steps = 0, !.light = 0])

\* graph.edges.forEach(e => { if (e.from === 'zone-1' || e.to === 'zone-1')
\* e.blocked = true; }): the caller closes the roads of zone-1 by hand
TwinBlockZone ==
    /\ twin.nodes = NewTwin.nodes
    /\ \E j \in EdgeIds : (defaultEdges[j].from = 1 \/ defaultEdges[j].to = 1) /\ ~twin.blocked[j]
    /\ TwinStep([twin EXCEPT !.blocked = [j \in EdgeIds |->
                                @[j] \/ defaultEdges[j].from = 1 \/ defaultEdges[j].to = 1],
                             !.out = [call |-> "block"]])

\* An id that names no node of the graph.
UnknownId == Len(defaultNodes) + 1

\* The routes asked for: the tests' (zone-1 to either shelter), routes between
\* zones, from a zone without out-edges, from a shelter, from a node to
\* itself, and to an id that names no node.
RouteQueries ==
    {<<1, 9>>, <<1, 10>>, <<2, 10>>, <<7, 9>>, <<8, 9>>, <<4, 1>>, <<3, 8>>,
     <<9, 1>>, <<3, 3>>, <<1, UnknownId>>}

TwinDijkstra ==
    \E query \in RouteQueries :
      LET startId == query[1]
          endId == query[2]
      IN
        TwinStep([twin EXCEPT !.out = [call |-> "dijkstra", startId |-> startId,
                                       endId |-> endId,
                                       route |-> dijkstra(twin, startId, endId)]])

\* the orchestrator's query, and the test's
EvacuationQueries == {<<1, 4, 7>>, <<1, 3, 5>>}

TwinFindRoutes ==
    \E zoneIds \in EvacuationQueries :
        TwinStep([twin EXCEPT !.out = [call |-> "findEvacuationRoutes", zoneIds |-> zoneIds,
                                       routes |-> findEvacuationRoutes(twin, zoneIds)]])

TwinSnapshot ==
    TwinStep([twin EXCEPT !.out = [call |-> "snapshot", snapshot |-> snapshot(twin)]])

\* The resolution step computes and stores the metrics.
ResolveMetrics ==
    /\ ~resolved.metrics.set
    /\ resolved' = [resolved EXCEPT !.metrics = setMetrics(resolved.peakRisk,
                                                           resolved.finalRisk)]
    /\ UNCHANGED <<programVars, neg, es, bus, twin, floodGrid, bayes, rng, zoneRun, server>>

NextResolution == ResolveMetrics

InitResolution ==
    /\ Constructed
    /\ neg = NoCall
    /\ es = NewEventStore
    /\ bus = NewBus
    /\ twin = NewTwin
    /\ floodGrid = NewFloodGrid
    /\ bayes = NewBayes
    /\ rng = NewRngs
    /\ \E peakRisk \in 0..MaxRiskValue, finalRisk \in 0..MaxRiskValue :
          resolved = ResolutionOf(peakRisk, finalRisk)
    /\ zoneRun = NewZoneRun
    /\ server = NewServer

SpecResolution == InitResolution /\ [][NextResolution]_vars

ZoneStep(Z) ==
    /\ zoneRun' = Z
    /\ UNCHANGED <<programVars, neg, es, bus, twin, floodGrid, bayes, rng, resolved, server>>

\* A write of the run or of one of its agents through the store's action.
MarkZone(Z, zoneId, status, level) ==
    [Z EXCEPT !.zones = setZoneStatus(@, zoneId, status, level),
              !.marked = IF status = "normal" THEN @ ELSE @ \cup {zoneId}]

\* runCrisisSequence, lines 381-409: const s = store(), then phase 1.
BeginZoneRun(isDemo) ==
    [zoneRun EXCEPT !.s = zoneRun.zones, !.crisisStatus = "detected",
                    !.pc = "sentinel1", !.isDemo = isDemo, !.marked = {},
                    !.runsStarted = @ + 1]

\* The inject button, shown in status idle.
ZoneInject ==
    /\ zoneRun.pc = "none"
    /\ zoneRun.crisisStatus = "idle"
    /\ zoneRun.runsStarted < MaxZoneRuns
    /\ ZoneStep(BeginZoneRun(FALSE))

\* The demo button, enabled in idle and resolved while no demo is on.
ZoneDemo ==
    /\ zoneRun.pc = "none"
    /\ zoneRun.crisisStatus \in {"idle", "resolved"}
    /\ zoneRun.runsStarted < MaxZoneRuns
    /\ ZoneStep(BeginZoneRun(TRUE))

\* The reset buttons, enabled in idle and resolved: resetSystem().
ZoneReset ==
    /\ zoneRun.pc = "none"
    /\ zoneRun.crisisStatus \in {"idle", "resolved"}
    /\ ZoneStep(ZoneRunAt(defaultZones, "idle", zoneRun.runsStarted))

\* runSentinelAgent, lines 213-223, then the transition to simulating that
\* wakes the Risk and the Simulation agent.
ZoneSentinel ==
    \/ /\ zoneRun.pc = "sentinel1"
       /\ ZoneStep([MarkZone(zoneRun, 1, "warning", 45) EXCEPT !.pc = "sentinel2"])
    \/ /\ zoneRun.pc = "sentinel2"
       /\ ZoneStep([MarkZone(zoneRun, 4, "warning", 38) EXCEPT !.pc = "sentinel3"])
    \/ /\ zoneRun.pc = "sentinel3"
       /\ ZoneStep([MarkZone(zoneRun, 7, "warning", 35) EXCEPT
                       !.pc = "parallel", !.crisisStatus = "simulating",
                       !.risk = "bridge", !.simulation = "monteCarlo"])

\* runRiskAgent, lines 279 and 283
ZoneRiskAgent ==
    /\ zoneRun.pc = "parallel"
    /\ \/ /\ zoneRun.risk = "bridge"
          /\ ZoneStep([MarkZone(zoneRun, 4, "critical", 61) EXCEPT !.risk = "grid"])
       \/ /\ zoneRun.risk = "grid"
          /\ ZoneStep([MarkZone(zoneRun, 6, "warning", 44) EXCEPT !.risk = "off"])

\* runSimulationAgentBurst, line 336
ZoneSimulationAgent ==
    /\ zoneRun.pc = "parallel"
    /\ zoneRun.simulation = "monteCarlo"
    /\ \E mean \in MonteCarloMeans :
          ZoneStep([MarkZone(zoneRun, 1, "critical", mean) EXCEPT !.simulation = "off"])

\* Promise.all has settled: planning, negotiation and governance (line 470),
\* none of which writes a zone.
ZoneNegotiate ==
    /\ zoneRun.pc = "parallel"
    /\ zoneRun.risk = "off"
    /\ zoneRun.simulation = "off"
    /\ ZoneStep([zoneRun EXCEPT !.pc = "exec1", !.crisisStatus = "negotiating"])

\* Phase 7, lines 523-565
ZoneExecute ==
    \/ /\ zoneRun.pc = "exec1"
       /\ ZoneStep([MarkZone(zoneRun, 1, "evacuating", 75) EXCEPT
                       !.pc = "exec2", !.crisisStatus = "mitigating"])
    \/ /\ zoneRun.pc = "exec2"
       /\ ZoneStep([MarkZone(zoneRun, 4, "evacuating", 50) EXCEPT !.pc = "exec3"])
    \/ /\ zoneRun.pc = "exec3"
       /\ ZoneStep([MarkZone(zoneRun, 1, "mitigated", 42) EXCEPT !.pc = "exec4"])
    \/ /\ zoneRun.pc = "exec4"
       /\ ZoneStep([MarkZone(MarkZone(zoneRun, 4, "mitigated", 25), 7, "mitigated", 18)
                       EXCEPT !.pc = "exec5"])
    \/ /\ zoneRun.pc = "exec5"
       /\ ZoneStep([MarkZone(zoneRun, 6, "normal", 12) EXCEPT
                       !.pc = "resolution", !.crisisStatus = "mitigated"])

\* Phase 8, lines 596-602: the zones are restored and the status becomes
\* resolved; runDemoSequence then waits before it resets.
ZoneResolve ==
    /\ zoneRun.pc = "resolution"
    /\ \E risks \in [ZoneIds -> RestoredRisks] :
          ZoneStep([zoneRun EXCEPT
                       !.zones = restoreZones(@, zoneRun.s,
                                              [z \in 1..Cardinality(ZoneIds) |-> risks[z]], 1),
                       !.crisisStatus = "resolved",
                       !.pc = IF zoneRun.isDemo THEN "demoDelay" ELSE "none"])

\* runDemoSequence, lines 615-618: resetSystem() after the delay
ZoneDemoTail ==
    /\ zoneRun.pc = "demoDelay"
    /\ ZoneStep(ZoneRunAt(defaultZones, "idle", zoneRun.runsStarted))

NextZones ==
    \/ ZoneInject
    \/ ZoneDemo
    \/ ZoneReset
    \/ ZoneSentinel
    \/ ZoneRiskAgent
    \/ ZoneSimulationAgent
    \/ ZoneNegotiate
    \/ ZoneExecute
    \/ ZoneResolve
    \/ ZoneDemoTail

SpecZones == Init /\ [][NextZones]_vars

ServerStep(S) ==
    /\ server' = S
    /\ UNCHANGED <<programVars, neg, es, bus, twin, floodGrid, bayes, rng, resolved, zoneRun>>

\* The positions of the timers whose time has come.
DueTimers == {i \in 1..Len(server.timers) : server.timers[i].left = 0}

RemoveAt(q, i) == SubSeq(q, 1, i - 1) \o SubSeq(q, i + 1, Len(q))

\* socket.on('crisis:inject') (lines 62-128): ignored while a crisis is
\* active; otherwise the flag is set, the log interval started and the five
\* phase callbacks scheduled.
ServerInject ==
    /\ DueTimers = {}
    /\ ~server.crisisActive
    /\ server.injections < MaxInjections
    /\ LET crisis == server.injections + 1
       IN ServerStep([server EXCEPT
              !.crisisActive = TRUE,
              !.injections = crisis,
              !.timers = (@ \o << [kind |-> "log", crisis |-> crisis,
                                   status |-> "none", left |-> LogInterval] >>)
                            \o PhaseTimers(crisis)])

\* socket.on('crisis:resolve') (lines 130-137): the flag is cleared and the
\* resolved phase sent; no timer is cleared.
ServerResolve ==
    /\ DueTimers = {}
    /\ server.resolves < MaxResolves
    /\ ServerStep([server EXCEPT
           !.crisisActive = FALSE,
           !.resolves = @ + 1,
           !.emitted = Append(@, [crisis |-> 0, status |-> "resolved",
                                  upTo |-> server.injections])])

\* A phase callback runs: the earliest created of the due timers.
ServerPhaseTimer ==
    /\ DueTimers # {}
    /\ LET i == CHOOSE j \in DueTimers : \A k \in DueTimers : j <= k
           timer == server.timers[i]
       IN /\ timer.kind = "phase"
          /\ ServerStep([server EXCEPT
                 !.timers = RemoveAt(@, i),
                 !.emitted = emitPhaseChange(server, timer.crisis, timer.status)])

\* agentLogGenerator runs (lines 72-90): it clears itself when no crisis is
\* active and sends a log line otherwise.
ServerLogTimer ==
    /\ DueTimers # {}
    /\ LET i == CHOOSE j \in DueTimers : \A k \in DueTimers : j <= k
           timer == server.timers[i]
       IN /\ timer.kind = "log"
          /\ ServerStep([server EXCEPT
                 !.timers = IF server.crisisActive
                            THEN [@ EXCEPT ![i].left = LogInterval]
                            ELSE RemoveAt(@, i)])

\* Time passes while no callback is due.
ServerAdvance ==
    /\ DueTimers = {}
    /\ server.timers # << >>
    /\ ServerStep([server EXCEPT
           !.timers = [i \in 1..Len(@) |-> [@[i] EXCEPT !.left = @ - Quantum]]])

NextServer ==
    \/ ServerInject
    \/ ServerResolve
    \/ ServerPhaseTimer
    \/ ServerLogTimer
    \/ ServerAdvance

SpecServer == Init /\ [][NextServer]_vars

RngStep(R) ==
    /\ rng' = R
    /\ UNCHANGED <<programVars, neg, es, bus, twin, floodGrid, bayes, resolved, zoneRun, server>>

\* rng1.random()
RngRandomOne ==
    /\ Len(rng.first) < MaxDraws
    /\ LET drawn == random(rng.one)
       IN RngStep([rng EXCEPT !.one = drawn.rng, !.first = Append(@, drawn.value)])

\* rng2.random()
RngRandomOther ==
    /\ Len(rng.second) < MaxDraws
    /\ LET drawn == random(rng.other)
       IN RngStep([rng EXCEPT !.other = drawn.rng, !.second = Append(@, drawn.value)])

\* rng1.reseed(seed), and a new generator made with that seed to compare it to
RngReseed ==
    /\ rng.reseeds < MaxResets
    /\ \E seed \in Seeds :
          RngStep([one |-> reseed(rng.one, seed), other |-> SeededRNG(seed),
                   first |-> << >>, second |-> << >>,
                   reseeds |-> rng.reseeds + 1, advanced |-> rng.one.callCount])

NextRng ==
    \/ RngRandomOne
    \/ RngRandomOther
    \/ RngReseed

InitRng ==
    /\ Constructed
    /\ neg = NoCall
    /\ es = NewEventStore
    /\ bus = NewBus
    /\ twin = NewTwin
    /\ floodGrid = NewFloodGrid
    /\ bayes = NewBayes
    /\ \E seed \in Seeds : rng = RngsWith(seed)
    /\ resolved = NewResolution
    /\ zoneRun = NewZoneRun
    /\ server = NewServer

SpecRng == InitRng /\ [][NextRng]_vars

BayesStep(B) ==
    /\ bayes' = B
    /\ UNCHANGED <<programVars, neg, es, bus, twin, floodGrid, rng, resolved, zoneRun, server>>

\* The evidence passed to update: the kinds the risk agent passes, the other
\* kinds of the table, a kind the table does not know, and kinds whose names
\* are members of Object.prototype.
Evidence ==
    {<<"rainfall", 60>>, <<"river_level", 5>>,
     <<"drainage_failure", (8 * Milli) \div 10>>, <<"social_spike", (85 * Milli) \div 100>>,
     <<"sensor_alert", Milli>>, <<"historical_frequency", Milli \div 5>>,
     <<"wind_speed", Milli \div 2>>, <<"constructor", Milli \div 2>>,
     <<"toString", Milli \div 2>>, <<"__proto__", Milli \div 2>>}

BayesUpdate ==
    /\ bayes.updates < MaxUpdates
    /\ \E evidence \in Evidence :
          LET result == update(bayes.state, evidence[1], evidence[2])
          IN BayesStep([bayes EXCEPT !.state = result.state, !.before = bayes.state,
                                     !.out = result.out, !.updates = @ + 1])

BayesReset ==
    /\ bayes.resets < MaxResets
    /\ BayesStep([bayes EXCEPT !.state = BayesianState((15 * Milli) \div 100),
                               !.before = bayes.state,
                               !.out = [call |-> "reset"], !.resets = @ + 1])

NextBayes ==
    \/ BayesUpdate
    \/ BayesReset

SpecBayes == Init /\ [][NextBayes]_vars

\* The parameters stepFloodGrid is called with: no rain or saturating rain,
\* drains failed or working (drainageCapacity is in tenths).
GridRainfalls == {0, 150}
GridDrainages == {0, 10}

\* grid = stepFloodGrid(grid, params): the caller passes the grid it holds and
\* keeps the one returned; the objects of the grid passed before are garbage.
GridStep ==
    /\ floodGrid.steps < MaxGridSteps
    /\ \E rainfall \in GridRainfalls, drainageCapacity \in GridDrainages :
          LET held == {floodGrid.current.cells[pos] : pos \in Positions}
              heap == [id \in held |-> floodGrid.heap[id]]
              result == stepFloodGrid([heap |-> heap, grid |-> floodGrid.current],
                                      [rainfall |-> rainfall,
                                       drainageCapacity |-> drainageCapacity])
          IN floodGrid' = [heap |-> result.heap,
                           current |-> result.grid,
                           given |-> floodGrid.current,
                           before |-> heap,
                           steps |-> floodGrid.steps + 1]
    /\ UNCHANGED <<programVars, neg, es, bus, twin, bayes, rng, resolved, zoneRun, server>>

NextGrid == GridStep

InitGrid ==
    /\ Constructed
    /\ neg = NoCall
    /\ es = NewEventStore
    /\ bus = NewBus
    /\ twin = NewTwin
    /\ floodGrid \in InputGrids
    /\ bayes = NewBayes
    /\ rng = NewRngs
    /\ resolved = NewResolution
    /\ zoneRun = NewZoneRun
    /\ server = NewServer

SpecGrid == InitGrid /\ [][NextGrid]_vars

RunStep(r) ==
    \/ DetectionStep(r)
    \/ RiskStep(r)
    \/ SimulationStep(r)
    \/ ResourceStep(r)
    \/ PlanningStep(r)
    \/ GovernanceStep(r)
    \/ ExecutionStep(r)
    \/ ResolutionStep(r)
    \/ WaitTimeout(r)

Next ==
    \/ Inject
    \/ Demo
    \/ Reset
    \/ ToggleHumanInLoop
    \/ Telemetry
    \/ Approve
    \/ Advance
    \/ SimTick
    \/ DemoTail
    \/ \E r \in RunIds : RunStep(r)
    \/ \E r \in RunIds, a \in ParallelAgents : AgentFail(r, a)

Spec == Init /\ [][Next]_vars

\* The operator's controls and the engine, with every agent procedure
\* completing and no telemetry feed connected.
NextControls ==
    \/ Inject
    \/ Demo
    \/ Reset
    \/ ToggleHumanInLoop
    \/ Approve
    \/ Advance
    \/ SimTick
    \/ DemoTail
    \/ \E r \in RunIds : RunStep(r)

SpecControls == Init /\ [][NextControls]_vars

\* One injected run under telemetry and failing agent procedures.
NextAgents ==
    \/ Inject
    \/ ToggleHumanInLoop
    \/ Telemetry
    \/ Approve
    \/ Advance
    \/ SimTick
    \/ \E r \in RunIds : RunStep(r)
    \/ \E r \in RunIds, a \in ParallelAgents : AgentFail(r, a)

SpecAgents == Init /\ [][NextAgents]_vars

\* runDynamicNegotiation called on its own, for every demand, inventory and
\* maxRounds of NegotiationCalls.
InitNegotiation ==
    /\ Constructed
    /\ neg \in NegotiationCalls
    /\ es = NewEventStore
    /\ bus = NewBus
    /\ twin = NewTwin
    /\ floodGrid = NewFloodGrid
    /\ bayes = NewBayes
    /\ rng = NewRngs
    /\ resolved = NewResolution
    /\ zoneRun = NewZoneRun
    /\ server = NewServer

NextNegotiation ==
    \/ NegEnter
    \/ NegPropose
    \/ NegCheck
    \/ NegConsensus
    \/ NegAdapt
    \/ NegTimeout

SpecNegotiation == InitNegotiation /\ [][NextNegotiation]_vars

\* The call is one async function on the event loop: each of its delays
\* expires, so a stretch that can run does run.
SpecNegotiationFair == SpecNegotiation /\ WF_vars(NextNegotiation)

\* The event store called on its own: appends, subscriptions and resets from
\* outside and from inside listeners, and writes to what was appended.
NextEventStore ==
    \/ EsAppend
    \/ EsSubscribe
    \/ EsUnsubscribe
    \/ EsReset
    \/ EsNotify
    \/ EsReturn
    \/ EsWritePayload
    \/ EsWriteEvent

SpecEventStore == Init /\ [][NextEventStore]_vars

\* The event bus called on its own: subscriptions, emits, resets and waitFor
\* from outside and from inside handlers.
NextBus ==
    \/ BusOn
    \/ BusOnce
    \/ BusWaitFor
    \/ BusUnsubscribe
    \/ BusEmit
    \/ BusReset
    \/ BusTimeout
    \/ BusDeliver
    \/ BusFinish

SpecBus == Init /\ [][NextBus]_vars

\* The graph twin called on its own.
NextTwin ==
    \/ TwinFloodStep
    \/ TwinReset
    \/ TwinBlockZone
    \/ TwinDijkstra
    \/ TwinFindRoutes
    \/ TwinSnapshot

SpecTwin == Init /\ [][NextTwin]_vars

\* ================================================================ properties
InProgress(r) == runs[r].pc \notin {"unborn", "done", "aborted"}

FullPath == <<"detected", "simulating", "negotiating", "mitigating", "mitigated", "resolved">>

\* C1: the crisis status only ever changes along one of the seven edges of the
\* cycle idle -> detected -> ... -> resolved -> idle, whichever code writes it.
C1_StatusFollowsCycle ==
    [][crisisStatus' # crisisStatus => crisisStatus' \in VALID_TRANSITIONS[crisisStatus]]_vars

\* C2: a transition request that is not in the table leaves the status as it
\* was, appends no STATE_TRANSITION event and no state-transition history
\* record, and adds a warning log line; the calling step goes on.
C2_RejectedIsNoOp ==
    (lastOp.op = "transition" /\ Rejected(lastOp.from, lastOp.to))
        => /\ lastOp.statusAfter = lastOp.from
           /\ ~lastOp.eventAdded
           /\ ~lastOp.historyAdded
           /\ lastOp.warned

C2_Witness ==
    /\ lastOp.op = "transition"
    /\ Rejected(lastOp.from, lastOp.to)
    /\ \E r \in RunIds : InProgress(r)

\* C3: a run started with human-in-the-loop disabled, from any state in which
\* a control starts one, has taken the status through detected, simulating,
\* negotiating, mitigating, mitigated, resolved, in that order, when it ends.
C3_DisabledRunVisitsAllSix ==
    \A r \in RunIds :
        (runs[r].pc = "tail" /\ ~runs[r].sHumanInLoop) => runs[r].path = FullPath

\* C4: at most one run executes at a time, its two-second tail and the demo
\* sequence's delayed stop-and-reset included.
C4_AtMostOneRun ==
    /\ Cardinality({r \in RunIds : InProgress(r)}) <= 1
    /\ demo.pc = "demoDelay" => \A r \in RunIds : ~InProgress(r)

\* Program points after the GOVERNANCE_APPROVED entry has been recorded.
PastApproval == {"g4"} \cup {"e2", "e4", "e6"} \cup ResolutionPcs

\* C5: a run that reached the approval step while human-in-the-loop was
\* enabled has not recorded GOVERNANCE_APPROVED, nor gone on to mitigating,
\* unless a HUMAN_APPROVAL_GIVEN has resumed it.
C5_EnabledMeansWait ==
    \A r \in RunIds :
        (runs[r].hitlAtApproval /\ ~runs[r].granted) => runs[r].pc \notin PastApproval

\* C6: when the grant signal has been issued, no run is left suspended in the
\* approval wait.
C6_GrantEndsWait ==
    lastOp.op = "grant" => \A r \in RunIds : runs[r].pc # "wait"

\* Program points after the negotiation has been computed.
NegotiatedPcs == {"neg"} \cup GovernancePcs \cup {"wait"} \cup PastApproval

\* The fallback values in use by a run whose Risk or Resource procedure failed.
FallbacksUsed(r) ==
    /\ ("Risk" \in runs[r].failed /\ runs[r].sTelemetry = NoTelemetry /\ runs[r].pc # "join")
            => runs[r].peakRisk = FallbackRisk
    /\ "Resource" \in runs[r].failed
            => /\ runs[r].inventory = FallbackInventory
               /\ runs[r].pc \in NegotiatedPcs
                    => runs[r].negotiation
                         = runDynamicNegotiation(InitialDemand, FallbackInventory)

\* A delay of the run or of one of its procedures is pending: the run is
\* neither stalled at the join, nor suspended, nor over.
Pending(r) ==
    \/ runs[r].timer # NoTimer
    \/ \E a \in ParallelAgents : runs[r].agent[a].timer # NoTimer

\* C7: a run started with human-in-the-loop disabled in which one, two or all
\* three parallel procedures raised an exception keeps going until it ends:
\* the other procedures complete, the join opens, the fallback values are
\* used, and the run ends with the status resolved after every phase.
C7_FailedAgentsRunResolves ==
    \A r \in RunIds :
        (runs[r].failed # {} /\ ~runs[r].sHumanInLoop)
            => /\ Pending(r)
               /\ FallbacksUsed(r)
               /\ runs[r].pc # "join"
                    => /\ runs[r].joined = ParallelAgents
                       /\ \A a \in ParallelAgents \ runs[r].failed :
                              runs[r].agent[a].outcome = "completed"
               /\ runs[r].pc = "tail"
                    => crisisStatus = "resolved" /\ runs[r].path = FullPath

C7_Witness ==
    \E r \in RunIds :
        /\ Cardinality(runs[r].failed) = 2
        /\ ~runs[r].sHumanInLoop
        /\ runs[r].pc = "tail"
        /\ crisisStatus = "resolved"

\* The events of a run that only the code after the join produces.
AfterJoin(e) ==
    \/ e.type \in {"AGENTS_CONVERGED", "MITIGATION_PROPOSED"}
    \/ e.type = "STATE_TRANSITION" /\ e.payload[2] = "negotiating"

\* C8: the convergence record, the mitigation plan and the transition to
\* negotiating come after each of Risk, Simulation and Resource has recorded
\* its completion or its failure, in whatever order they finished.
C8_JoinBeforeConvergence ==
    \A i \in 1..Len(events) :
        AfterJoin(events[i]) =>
            \A a \in ParallelAgents :
                \E j \in 1..(i - 1) :
                    /\ events[j].run = events[i].run
                    /\ events[j].source = a
                    /\ events[j].type \in {"AGENT_COMPLETED", "AGENT_FAILURE"}

C8_Witness ==
    \E i, j \in 1..Len(events) :
        /\ events[i].type = "STATE_TRANSITION" /\ events[i].payload[2] = "negotiating"
        /\ events[j].type = "AGENT_FAILURE"
        /\ events[j].run = events[i].run

ChainKinds == <<"convergence", "governance", "resolution">>

\* C9: every chain-hashed audit record of a run hashes, from the genesis value
\* on, the decisions of that run alone, in the order convergence, governance
\* approval, resolution.
C9_OneChainPerRun ==
    \A i \in 1..Len(auditTrail) :
        LET e == auditTrail[i] IN
        e.hash # GenesisHash =>
            /\ Len(e.hash) <= Len(ChainKinds)
            /\ \A k \in 1..Len(e.hash) : e.hash[k] = [kind |-> ChainKinds[k], run |-> e.run]

RECURSIVE Replay(_, _)
\* The status reconstructed from a log: the target of each STATE_TRANSITION
\* event applied in sequence order.
Replay(status, log) ==
    IF log = << >> THEN status
    ELSE Replay(IF Head(log).type = "STATE_TRANSITION" THEN Head(log).payload[2] ELSE status,
                Tail(log))

\* C10: while a run (and no other) is executing, the crisis status is the one
\* obtained by replaying the event store's log from the status the run began in.
C10_StatusIsReplay ==
    \A r \in RunIds :
        (InProgress(r) /\ \A q \in RunIds \ {r} : ~InProgress(q))
            => crisisStatus = Replay(runs[r].startStatus, events)

\* ------------------------------------------------- the mitigation interrupt
CountAudit(action) ==
    Cardinality({i \in 1..Len(auditTrail) : auditTrail[i].action = action})

\* What every tick that fired the interrupt observed.
InterruptObserved ==
    (lastOp.op = "tick" /\ lastOp.fired)
        => /\ lastOp.status = "mitigating"
           /\ ~lastOp.latched
           /\ lastOp.currentRisk - lastOp.lastRisk > RISK_ESCALATION_THRESHOLD

Ended(r) == runs[r].pc \in {"tail", "done", "aborted"}

\* C12: the continuous simulation loop is active only from a run's simulation
\* burst to its resolution phase: it is not running (and no tick computes)
\* before a run has started it, nor once the run has ended, by reaching
\* resolved or by being aborted.
C12_LoopOnlyDuringRun ==
    /\ (\A r \in RunIds : runs[r].pc = "unborn") => ~simulationRunning
    /\ (\A r \in RunIds : runs[r].pc = "unborn" \/ Ended(r))
          => /\ ~simulationRunning
             /\ tickTimer = NoTimer
             /\ lastOp.op # "tick"

\* --------------------------------------------------------- during the wait
\* C13: while a run is suspended waiting for human approval, other scheduled
\* work is not blocked (the interval of a running loop stays armed, a telemetry
\* packet can be applied) and the crisis status stays negotiating.
C13_WaitKeepsNegotiating ==
    \A r \in RunIds :
        runs[r].pc = "wait"
            => /\ crisisStatus = "negotiating"
               /\ simulationRunning => tickTimer \in 0..TICK_INTERVAL_MS
               /\ ENABLED Telemetry

\* ------------------------------------------------------- failures recorded
\* The step is a failure of run r: an agent procedure threw, a transition was
\* rejected, the negotiation used up its rounds, or the approval wait timed out.
FailureStep(r) ==
    \/ runs'[r].failed # runs[r].failed
    \/ /\ lastOp'.op = "transition"
       /\ lastOp'.run = r
       /\ Rejected(lastOp'.from, lastOp'.to)
    \/ runs[r].pc = "neg" /\ runs'[r].pc = "gov" /\ ~runs[r].negotiation.consensus
    \/ runs[r].pc = "wait" /\ runs'[r].pc = "aborted"

\* C14: every failure during a run leaves at least one log or audit entry:
\* the step in which it happens adds to the log or to the audit trail.
C14_FailuresAreRecorded ==
    [][\A r \in RunIds :
          FailureStep(r) => (logs' # logs \/ auditTrail' # auditTrail)]_vars

\* ------------------------------------------------------------------ C15
Returned == neg.pc = "returned"

\* C15: for every initial demand, inventory and maxRounds >= 0 a call of
\* runDynamicNegotiation terminates; at no point has it performed more than
\* maxRounds rounds, and the round count it returns lies in 0..maxRounds.
C15_BoundedRoundsAndReturn ==
    /\ [](neg.round \in 0..neg.maxRounds)
    /\ [](Returned => neg.result.rounds \in 0..neg.maxRounds)
    /\ <>Returned

\* A call with maxRounds >= 2 has returned after performing all its rounds.
C15_Witness ==
    /\ Returned
    /\ neg.maxRounds >= 2
    /\ neg.result.rounds = neg.maxRounds
    /\ Len(neg.result.proposals) = 2 * neg.maxRounds

\* ------------------------------------------------------------------ C16
\* C16: whenever at least one round was rejected and its suggested fix applied,
\* the pump request of the final demand returned by runDynamicNegotiation is at
\* most the inventory's pumpUnits.
C16_PumpsWithinUnitsAfterFix ==
    (Returned /\ neg.fixes >= 1)
        => neg.result.finalDemand.pumpsRequested <= neg.inventory.pumpUnits

\* A call whose initial pump request exceeded pumpUnits returned after a fix
\* brought the request down to pumpUnits.
C16_Witness ==
    /\ Returned
    /\ neg.fixes >= 1
    /\ neg.initialDemand.pumpsRequested > neg.inventory.pumpUnits
    /\ neg.result.finalDemand.pumpsRequested = neg.inventory.pumpUnits

\* ------------------------------------------------------------------ C17
ExceedsLimits(demand, inventory) ==
    \/ demand.zones > inventory.maxSimultaneousZones
    \/ demand.pumpsRequested > inventory.pumpUnits

\* C17: given an initial demand whose zone count exceeds maxSimultaneousZones
\* or whose pump request exceeds pumpUnits, runDynamicNegotiation returns
\* either a consensus whose final demand exceeds neither limit, or a timed-out
\* result after exactly maxRounds rounds; a consensus is never returned for a
\* demand that still exceeds one of the two limits.  A timed-out result is one
\* returned from the fallback branch, whose NEGOTIATION_RESOLVED bus event
\* carries timedOut: true.
C17_ConsensusWithinLimitsOrTimeout ==
    (Returned /\ ExceedsLimits(neg.initialDemand, neg.inventory))
        => \/ /\ neg.consensus
              /\ ~ExceedsLimits(neg.result.finalDemand, neg.inventory)
           \/ /\ ~neg.consensus
              /\ neg.timedOutEmitted
              /\ neg.result.rounds = neg.maxRounds

\* A call whose initial pump request exceeded pumpUnits returned a consensus in
\* its second round, on the reduced request.
C17_Witness ==
    /\ Returned
    /\ neg.initialDemand.pumpsRequested > neg.inventory.pumpUnits
    /\ neg.consensus
    /\ neg.result.rounds = 2
    /\ neg.result.finalDemand.pumpsRequested = neg.inventory.pumpUnits

\* ------------------------------------------------------------------ C18
\* C18: when maxRounds is exhausted without consensus, the result returned by
\* runDynamicNegotiation is marked timedOut, so that the caller can tell a
\* timed-out negotiation from a clean consensus by the returned result alone.
C18_TimeoutResultMarked ==
    (Returned /\ ~neg.consensus)
        => /\ "timedOut" \in DOMAIN neg.result
           /\ neg.result.timedOut

\* ------------------------------------------------------------------ C19
\* C19: checkFeasibility reports a shelter-capacity shortfall but does not let
\* it decide the outcome: a demand that satisfies the zone-count, pump and
\* vehicle constraints is judged feasible even when totalPopulation exceeds
\* shelterCapacity.
C19_ShelterDoesNotBlock ==
    neg.pc = "decide"
        => /\ ("shelter" \in neg.check.issues)
                <=> (neg.currentDemand.totalPopulation > neg.inventory.shelterCapacity)
           /\ (neg.check.issues \subseteq {"shelter"}) => neg.check.feasible

\* ------------------------------------------------------------------ C20
\* C20: in every orchestrated run the negotiation of the negotiation phase
\* (the fixed demand against the audited inventory, or against the fallback
\* inventory if the Resource procedure failed) ends in consensus, a round
\* accepted as feasible, within maxRounds rounds.
C20_OrchestratedNegotiationAgrees ==
    \A r \in RunIds :
        runs[r].pc \in (NegotiatedPcs \ {"neg"})
            => /\ runs[r].inventory \in {AuditedInventory, FallbackInventory}
               /\ runs[r].negotiation.consensus
               /\ runs[r].negotiation.rounds \in 1..MaxNegotiationRounds

\* ------------------------------------------------------------------ C21
\* C21: after any sequence of append and reset operations, including appends
\* made by a listener while another append is still notifying, the i-th event
\* held by the event store has sequence number i counted from 0 (strictly
\* increasing in log order, no gaps, no duplicates), and reset restarts the
\* numbers at 0 with an empty log.
C21_SequenceIsLogIndex ==
    /\ \A i \in 1..Len(es.events) : es.events[i].sequence = i - 1
    /\ es.sequence = Len(es.events)
    /\ es.lastCall = "reset" => (es.events = << >> /\ es.sequence = 0)

\* A listener of a listener's append is appending, after a reset: three
\* appends are in progress and the log holds their events.
C21_Witness ==
    /\ Len(es.stack) >= 2
    /\ es.resets >= 1
    /\ Len(es.events) >= 2
    /\ es.events[Len(es.events)].sequence = Len(es.events) - 1

\* ------------------------------------------------------------------ C22
\* C22: once an event has been appended, no later operation changes what the
\* log records for it: every attempt to modify the stored event, any of its
\* fields or the contents of its payload through a reference the appender
\* still holds, fails or has no effect on the stored record.
C22_StoredEventUnchangeable ==
    \A i \in 1..Len(es.events) : es.heap[es.events[i].payload] = es.events[i].appended

\* ------------------------------------------------------------------ C23
DeliveredSet(e) == {e.delivered[i] : i \in 1..Len(e.delivered)}

\* C23: when emit is called, an exception thrown by one subscriber's handler
\* does not propagate to the emitter and does not prevent any other subscriber
\* of that event type from receiving the event in the same emit.
C23_ThrowIsIsolated ==
    /\ ~bus.escaped
    /\ bus.done.threw # {}
            => \A i \in 1..Len(bus.done.subscribed) :
                    bus.done.subscribed[i] \in DeliveredSet(bus.done)

\* An emit to two or more subscribers has returned; the first handler threw
\* and the second was invoked after it.
C23_Witness ==
    /\ Len(bus.done.subscribed) >= 2
    /\ bus.done.subscribed[1] \in bus.done.threw
    /\ Len(bus.done.delivered) >= 2
    /\ bus.done.delivered[2] = bus.done.subscribed[2]
    /\ ~bus.escaped

\* ------------------------------------------------------------------ C24
\* C24: each emit invokes exactly the handlers that were subscribed to the
\* event type at the moment emit was called, each exactly once and in the
\* order they were registered; a handler registered by another handler during
\* the delivery is not invoked in that same emit.
C24_DeliversToSubscribedAtCall ==
    /\ bus.done.delivered = bus.done.subscribed
    /\ \A i \in 1..Len(bus.stack) :
            Len(bus.stack[i].delivered) <= Len(bus.stack[i].subscribed)

\* ------------------------------------------------------------------ C25
\* C25: a handler registered with once is invoked for at most one event over
\* its whole lifetime, for every sequence of emits, including an emit of the
\* same event type issued from inside a handler while the first delivery is
\* still in progress.
C25_OnceInvokedAtMostOnce ==
    \A id \in 1..Len(bus.info) : bus.info[id].kind = "once" => bus.info[id].calls <= 1

\* ------------------------------------------------------------------ C26
\* C26: after the unsubscribe function returned by on or once has been called,
\* the handler is never invoked by any later emit, also when the unsubscribe
\* call is made from inside a handler during an emit that also delivers to a
\* once-subscriber of the same event type.
C26_NoCallAfterUnsubscribe ==
    \A id \in bus.lateCalls : bus.info[id].kind \notin {"on", "once"}

\* ------------------------------------------------------------------ C27
\* C27: a waitFor promise settles exactly once: it resolves with the first
\* event of the awaited type emitted after the call if that emit happens
\* before the timeout elapses, and otherwise it rejects when the timeout
\* elapses; an event of the awaited type emitted within the timeout always
\* resolves the pending wait.
C27_WaitResolvesOnFirstEmit ==
    \A id \in 1..Len(bus.info) :
        bus.info[id].kind = "wait"
            => /\ (bus.info[id].firstEmit # 0 /\ BusIdle)
                    => (bus.info[id].state = "resolved"
                        /\ bus.info[id].value = bus.info[id].firstEmit)
               /\ bus.info[id].state = "rejected" => bus.info[id].firstEmit = 0
               /\ bus.info[id].state = "pending" <=> bus.info[id].timer

\* ------------------------------------------------------------------ C28
\* C28: across any sequence of simulateFloodStep, dijkstra,
\* findEvacuationRoutes and snapshot calls an edge whose blocked flag has
\* become true never becomes unblocked again; only reset() returns edges to
\* the unblocked state.
C28_BlockedStaysBlocked ==
    [][\A j \in EdgeIds :
          (twin.blocked[j] /\ ~twin'.blocked[j])
              => (twin'.out.call = "reset" /\ twin'.blocked = NewTwin.blocked)]_vars

\* A flood step has just run on a graph with an edge that the water blocked
\* and an edge that was closed by hand while its ends were below the blocking
\* levels; both are still blocked.
C28_Witness ==
    /\ twin.out.call = "simulateFloodStep"
    /\ twin.steps = MaxFloodSteps
    /\ \E j \in EdgeIds : twin.blocked[j] /\ ~BlockedAfterRecomputed(twin.nodes, j, FALSE)
    /\ \E j \in EdgeIds : twin.blocked[j] /\ BlockedAfterRecomputed(twin.nodes, j, FALSE)

\* C29: after every simulateFloodStep, a node is flagged flooded exactly when
\* its water level exceeds 0.4, the inflow it received from other nodes
\* during that step included.
C29_FloodedFlagMatchesLevel ==
    twin.out.call = "simulateFloodStep"
        => \A n \in NodeIds :
              twin.nodes[n].isFlooded <=> twin.nodes[n].waterLevel > (4 * Unit) \div 10

\* Edge j can be travelled: it is not blocked and its target is not flooded.
Passable(T, j) == ~T.blocked[j] /\ ~T.nodes[defaultEdges[j].to].isFlooded

\* The ids that can be reached from the ids in `seen` over passable edges.
RECURSIVE ReachableFrom(_, _)
ReachableFrom(T, seen) ==
    LET next == seen \cup {defaultEdges[j].to :
                              j \in {k \in EdgeIds : defaultEdges[k].from \in seen
                                                      /\ Passable(T, k)}}
    IN IF next = seen THEN seen ELSE ReachableFrom(T, next)

\* The route is a travelled path from startId to endId.
IsPathBetween(T, path, startId, endId) ==
    /\ path # << >>
    /\ path[1] = startId
    /\ path[Len(path)] = endId
    /\ \A i \in 1..(Len(path) - 1) :
          \E j \in EdgeIds : /\ defaultEdges[j].from = path[i]
                             /\ defaultEdges[j].to = path[i + 1]
                             /\ Passable(T, j)

\* C30: dijkstra(start, end) returns a route exactly when some path from start
\* to end exists over unblocked edges that never enters a flooded node, and
\* null otherwise; a returned path begins at start, ends at end, and each
\* consecutive pair on it is joined by an unblocked edge into a node that is
\* not flooded.
C30_RouteIffPathExists ==
    twin.out.call = "dijkstra"
        => /\ twin.out.route # NoRoute
                <=> twin.out.endId \in ReachableFrom(twin, {twin.out.startId})
           /\ twin.out.route # NoRoute
                => IsPathBetween(twin, twin.out.route.path,
                                 twin.out.startId, twin.out.endId)

\* The passable paths that visit no node twice and begin as one of `paths`.
RECURSIVE PathsFrom(_, _)
PathsFrom(T, paths) ==
    LET next == paths \cup
                 {Append(p, defaultEdges[j].to) :
                    <<p, j>> \in {<<q, k>> \in paths \X EdgeIds :
                                    /\ defaultEdges[k].from = q[Len(q)]
                                    /\ Passable(T, k)
                                    /\ \A i \in 1..Len(q) : q[i] # defaultEdges[k].to}}
    IN IF next = paths THEN paths ELSE PathsFrom(T, next)

\* The cost of travelling a path: each edge's weight plus the penalty of the
\* node it enters.
RECURSIVE PathCost(_, _, _)
PathCost(T, path, i) ==
    IF i >= Len(path) THEN 0
    ELSE LET j == CHOOSE k \in EdgeIds : /\ defaultEdges[k].from = path[i]
                                         /\ defaultEdges[k].to = path[i + 1]
         IN defaultEdges[j].weight * Unit + T.nodes[path[i + 1]].waterLevel * 20
                + PathCost(T, path, i + 1)

\* The costs of the passable paths from zoneId to a shelter.
ShelterCosts(T, zoneId) ==
    {PathCost(T, p, 1) : p \in {q \in PathsFrom(T, {<<zoneId>>}) :
                                  q[Len(q)] \in {Shelters[1], Shelters[2]}}}

\* C31: findEvacuationRoutes returns one entry for every requested zone; the
\* entry is null exactly when no shelter can be reached from the zone, and
\* otherwise it is a route to a shelter whose cost (edge weights plus flood
\* penalties) is the least among all passable routes from the zone to any
\* shelter.
C31_CheapestShelterRoute ==
    twin.out.call = "findEvacuationRoutes"
        => /\ DOMAIN twin.out.routes
                = {twin.out.zoneIds[i] : i \in 1..Len(twin.out.zoneIds)}
           /\ \A z \in DOMAIN twin.out.routes :
                 LET route == twin.out.routes[z]
                     costs == ShelterCosts(twin, z)
                 IN /\ route = NoRoute <=> costs = {}
                    /\ route # NoRoute
                         => /\ route.path[Len(route.path)] \in {Shelters[1], Shelters[2]}
                            /\ IsPathBetween(twin, route.path, z,
                                             route.path[Len(route.path)])
                            /\ \A cost \in costs :
                                  PathCost(twin, route.path, 1) <= cost

C31_Witness ==
    /\ twin.out.call = "findEvacuationRoutes"
    /\ \E z \in DOMAIN twin.out.routes : twin.out.routes[z] = NoRoute
    /\ \E z \in DOMAIN twin.out.routes :
          /\ twin.out.routes[z] # NoRoute
          /\ Len(twin.out.routes[z].path) >= 3
    /\ \E n \in NodeIds : twin.nodes[n].isFlooded
    /\ \E j \in EdgeIds : twin.blocked[j]

\* Every cell of the grid passed to the last call had a level in [0, 1].
GivenWithinUnit ==
    \A id \in DOMAIN floodGrid.before :
        floodGrid.before[id].waterLevel >= 0 /\ floodGrid.before[id].waterLevel <= Unit

\* C32: for a grid whose cells have water levels in [0, 1], every cell of the
\* grid stepFloodGrid returns has a water level in [0, 1], the cells that were
\* pushed water by a higher neighbour included.
C32_LevelsStayWithinUnit ==
    (floodGrid.given # NoGrid /\ GivenWithinUnit)
        => \A pos \in Positions :
              LET level == floodGrid.heap[floodGrid.current.cells[pos]].waterLevel
              IN level >= 0 /\ level <= Unit

\* C33: stepFloodGrid does not modify the grid it is given: after the call
\* every cell of that grid has the fields it had before, and the grid returned
\* and each of its cells are objects other than those of the grid given.
C33_InputGridUntouched ==
    floodGrid.given # NoGrid
        => /\ \A pos \in Positions :
                 floodGrid.heap[floodGrid.given.cells[pos]]
                     = floodGrid.before[floodGrid.given.cells[pos]]
           /\ floodGrid.current.ref # floodGrid.given.ref
           /\ \A pos \in Positions, other \in Positions :
                 floodGrid.current.cells[pos] # floodGrid.given.cells[other]

C33_Witness ==
    /\ floodGrid.steps = MaxGridSteps
    /\ \E pos \in Positions :
          floodGrid.heap[floodGrid.current.cells[pos]].waterLevel
              # floodGrid.heap[floodGrid.given.cells[pos]].waterLevel
    /\ \E pos \in Positions :
          floodGrid.heap[floodGrid.current.cells[pos]].waterLevel > Unit

\* C34: update with an evidence type that has no likelihood function raises
\* the unknown-evidence-type error and leaves the engine state (posterior,
\* updateCount, confidence interval, history) as it was before the call.
C34_UnknownEvidenceRejected ==
    (bayes.out.call = "update" /\ bayes.out.evidenceType \notin OwnEvidenceTypes)
        => /\ bayes.out.threw = "Unknown evidence type"
           /\ bayes.state = bayes.before

\* C35: two generators given the same seed return the same value on every
\* corresponding random() call, and a reseeded generator is in the state of a
\* new generator with that seed: it returns the same values from then on and
\* its call counter starts again at 0.
C35_SameSeedSameSequence ==
    /\ \A i \in 1..Min(Len(rng.first), Len(rng.second)) : rng.first[i] = rng.second[i]
    /\ rng.one.callCount = Len(rng.first)
    /\ rng.other.callCount = Len(rng.second)
    /\ rng.one.seed = rng.other.seed

C35_Witness ==
    /\ rng.reseeds = 1
    /\ rng.advanced >= 2
    /\ Len(rng.first) = MaxDraws
    /\ Len(rng.second) = MaxDraws
    /\ rng.first[1] # rng.first[2]
    /\ rng.one.seed = 42
    /\ rng.first[1] = <<39393, 61308>>

\* round(x / y * 100) as the statement writes it: there is no such number when
\* y is 0, and a half goes upwards.
RoundedPercent(x, y) ==
    IF y = 0 THEN NotANumber ELSE (200 * x + y) \div (2 * y)

\* C36 as stated: riskReduction is max(0, peakRisk - finalRisk) and
\* damagePrevented is round(riskReduction / peakRisk * 100); for all integer
\* peak and final risks in [0, 100] both are integers with
\* 0 <= riskReduction <= peakRisk and 0 <= damagePrevented <= 100.
C36_MetricsAsStated ==
    resolved.metrics.set
        => /\ resolved.metrics.riskReduction
                = Max(0, resolved.peakRisk - resolved.finalRisk)
           /\ resolved.metrics.damagePrevented
                = RoundedPercent(resolved.metrics.riskReduction, resolved.peakRisk)
           /\ resolved.metrics.riskReduction \in 0..resolved.peakRisk
           /\ resolved.metrics.damagePrevented \in 0..100

\* C36, amended: riskReduction is max(0, peakRisk - finalRisk) and
\* damagePrevented is the quotient riskReduction / max(1, peakRisk) * 100
\* rounded to a nearest integer (0 when peakRisk is 0); both are integers with
\* 0 <= riskReduction <= peakRisk and 0 <= damagePrevented <= 100.
C36_MetricsWithGuardedDivisor ==
    resolved.metrics.set
        => LET divisor == Max(1, resolved.peakRisk)
               distance == 100 * resolved.metrics.riskReduction
                             - resolved.metrics.damagePrevented * divisor
           IN /\ resolved.metrics.riskReduction
                   = Max(0, resolved.peakRisk - resolved.finalRisk)
              /\ 2 * distance <= divisor
              /\ 2 * distance >= 0 - divisor
              /\ resolved.metrics.riskReduction \in 0..resolved.peakRisk
              /\ resolved.metrics.damagePrevented \in 0..100

C36_Witness ==
    /\ resolved.metrics.set
    /\ resolved.peakRisk = 0
    /\ resolved.finalRisk > 0
    /\ resolved.metrics.damagePrevented = 0

\* The engine under an operator who injects, starts demos, resets and approves
\* (or never approves), with the human-in-the-loop switch left on and no
\* telemetry feed.  The event loop keeps running: time passes while a timer is
\* armed, and the interval and demo callbacks run when they are due.
NextSupervised ==
    \/ Inject
    \/ Demo
    \/ Reset
    \/ Approve
    \/ Advance
    \/ SimTick
    \/ DemoTail
    \/ \E r \in RunIds : RunStep(r)

SpecSupervised ==
    /\ Init
    /\ [][NextSupervised]_vars
    /\ WF_vars(Advance)
    /\ WF_vars(SimTick)
    /\ WF_vars(DemoTail)

\* A run was rejected by the timeout of its approval wait.
WaitTimedOut == \E r \in RunIds : runs[r].pc = "aborted"

\* InjectCrisisButton accepts a control: the inject button is shown in status
\* idle, the reset buttons are enabled in idle and resolved, and the demo
\* button in these when no demo is on.
ControlAccepted == crisisStatus \in {"idle", "resolved"}

\* C37: after the human-approval wait has timed out and the run has been
\* aborted, the system does not remain forever in a state in which neither the
\* inject, the demo nor the reset control is accepted: a state where one of
\* them is accepted follows.
C37_ControlsAcceptedAfterTimeout == [](WaitTimedOut => <>ControlAccepted)

\* C38: when a run reaches status resolved, every zone has status normal: each
\* zone that the run marked warning, critical, evacuating or mitigated has
\* been returned to normal by the resolution step.
C38_ZonesNormalAtResolved ==
    zoneRun.crisisStatus = "resolved"
        => \A z \in ZoneIds : zoneRun.zones[z].status = "normal"

\* C39: for every demand and inventory, a negotiation that has not reached
\* consensus by the end of round 2 never reaches it: every fix applied from
\* round 2 on leaves the working demand unchanged, consensus is reached in
\* round 1 or 2 only, and for maxRounds >= 2 the returned round count is 1, 2
\* or maxRounds.
C39_ConsensusByRoundTwoOrNever ==
    [][/\ (neg.pc = "decide" /\ neg'.pc = "loop" /\ neg.round >= 2)
            => neg'.currentDemand = neg.currentDemand
       /\ neg'.consensus => neg'.round <= 2
       /\ (neg'.pc = "returned" /\ neg'.maxRounds >= 2)
            => neg'.result.rounds \in {1, 2, neg'.maxRounds}]_vars

C39_Witness ==
    /\ neg.pc = "returned"
    /\ neg.maxRounds = MaxRoundsArg
    /\ ~neg.consensus
    /\ neg.fixes = MaxRoundsArg
    /\ neg.result.rounds = MaxRoundsArg
    /\ neg.currentDemand # neg.initialDemand
    /\ neg.currentDemand = Adapt(neg.initialDemand, neg.inventory)

\* C40: on the server, after a crisis has been resolved no phase-change
\* notification scheduled by that resolved injection is ever emitted, even
\* when a new crisis is injected before its scheduled time.
C40_NoPhaseOfResolvedCrisis ==
    \A i, j \in 1..Len(server.emitted) :
        (i < j /\ server.emitted[i].status = "resolved")
            => \/ server.emitted[j].status = "resolved"
               \/ server.emitted[j].crisis > server.emitted[i].upTo

====
